---- MODULE Spec2Model ----
(***************************************************************************)
(* Caching and revalidation layer of the volby.cz election scraper         *)
(* (src/volbycz_scraper/scraper.py): the disk cache, the refresh policy    *)
(* of _get_dataset_with_cache and the year fallback of                     *)
(* gather_election_data.                                                   *)
(*                                                                         *)
(* Python dicts are functions over their key set, so a missing key is a    *)
(* key outside DOMAIN.  Dataclass instances carry a "cls" tag, which       *)
(* asdict drops and the constructor adds.  None is Null where text is      *)
(* expected and NoNum where a number is expected.  A transport failure     *)
(* (requests.RequestException) is a response of status TransportError.     *)
(***************************************************************************)
EXTENDS Integers, Sequences, FiniteSets, TLC

VARIABLES now, disk, last, calls, instance, upstream

vars == <<now, disk, last, calls, instance, upstream>>

----------------------------------------------------------------------------
(* Program constants *)

CACHE_VERSION == 1
PARTIAL_REFRESH_INTERVAL == 60
FINAL_REFRESH_INTERVAL == 3600
PRIMARY_RESOURCE == "vysled/celkem.json"
REGION_RESOURCE == "mapa_vitez.json"

(* the years the dashboard (src/app.py) asks for *)
PRIMARY_YEAR == 2025
FALLBACK_YEAR == 2021

Null == "<None>"
NoNum == -1
TransportError == 0

----------------------------------------------------------------------------
(* Bounds of the model *)

MaxCalls == 1
MaxPolls == 2
MaxProbes == 1
MaxFetches == 2
MaxScript == 4
BufferBytes == 3
StartTime == 10000

Years == {FALLBACK_YEAR, PRIMARY_YEAR}
LangInputs == {"EN"}
RequestSeconds == 1
Waits == {30, 60, 3600}
Revisions == {1, 2}

----------------------------------------------------------------------------
(* dict helpers *)

EmptyDict == [k \in {} |-> Null]

Get(d, k, default) == IF k \in DOMAIN d THEN d[k] ELSE default

Put(d, k, v) == [j \in DOMAIN d \cup {k} |-> IF j = k THEN v ELSE d[j]]

Pop(d, k) == [j \in DOMAIN d \ {k} |-> d[j]]

Truthy(text) == text # Null /\ text # ""

----------------------------------------------------------------------------
(* Exceptions *)

NoExc == [kind |-> "none", year |-> NoNum, resource |-> Null,
          status |-> NoNum, reason |-> Null]

ElectionDataUnavailable(year, resource, status, reason) ==
    [kind |-> "ElectionDataUnavailable", year |-> year, resource |-> resource,
     status |-> status, reason |-> reason]

OtherError(kind) == [NoExc EXCEPT !.kind = kind]

Raised(r) == r.exc.kind # "none"

----------------------------------------------------------------------------
(* Domain records *)

PartyFields == {"number", "name", "votes", "vote_share"}
SeatFields == {"party", "mandates", "color"}
RegionFields == {"region_id", "region_name", "leading_party", "leading_percent",
                 "votes", "processed_percent", "color", "detail_url"}

PartyResult(number, name, votes, vote_share) ==
    [cls |-> "PartyResult", number |-> number, name |-> name, votes |-> votes,
     vote_share |-> vote_share]

SeatAllocation(party, mandates, color) ==
    [cls |-> "SeatAllocation", party |-> party, mandates |-> mandates,
     color |-> color]

RegionLeader(region_id, region_name, leading_party, leading_percent, votes, processed_percent, color, detail_url) ==
    [cls |-> "RegionLeader", region_id |-> region_id,
     region_name |-> region_name, leading_party |-> leading_party,
     leading_percent |-> leading_percent, votes |-> votes,
     processed_percent |-> processed_percent, color |-> color,
     detail_url |-> detail_url]

----------------------------------------------------------------------------
(* Language and cache key *)

Upper(lang) == IF lang = "en" THEN "EN" ELSE lang

Lower(lang) == IF lang = "EN" THEN "en" ELSE lang

CachePath(year, lang) == <<year, Lower(lang)>>

Paths == {CachePath(y, l) : y \in Years, l \in LangInputs}

PrimaryResourceOf(lang) == "ps2?xjazyk=" \o lang

----------------------------------------------------------------------------
(* Upstream responses.  A response is what the server (or the transport)   *)
(* answers to one request: its status, its ETag header, the shape of its   *)
(* body and the revision of the published content the body carries.        *)

Response(status, etag, shape, rev) ==
    [status |-> status, etag |-> etag, shape |-> shape, rev |-> rev]

EtagOf(rev) == IF rev = 1 THEN "e1" ELSE "e2"

NoResponse == Response(TransportError, Null, "none", 1)

CelkemResponses ==
    {NoResponse, Response(404, Null, "none", 1)}
    \cup {Response(200, Null, sh, 1) : sh \in {"marker", "badjson", "short"}}
    \cup {Response(200, EtagOf(r), "ok", r) : r \in Revisions}

MapaResponses ==
    {Response(404, Null, "none", 1), Response(200, Null, "ok", 1)}

(* The answers <<rc, rm>> to the two data requests of one fetch_all: the   *)
(* region map is missing only beside the first revision of the results.    *)
DataResponses ==
    {<<rc, rm>> \in CelkemResponses \X MapaResponses :
        rm.status = 200 \/ (rc.shape = "ok" /\ rc.rev = 1)}

ConditionalResponses ==
    {NoResponse, Response(500, Null, "none", 1), Response(304, Null, "none", 1)}
    \cup {Response(200, e, "ok", 2) : e \in {Null, "e2"}}

Headers(resp) == IF resp.etag = Null THEN EmptyDict ELSE [ETag |-> resp.etag]

(* One request as the log keeps it: where it went, the If-None-Match      *)
(* header it carried (Null for none), and the status, ETag header and body *)
(* revision of the answer.                                                 *)
Request(year, resource, ifNoneMatch, resp) ==
    [year |-> year, resource |-> resource, if_none_match |-> ifNoneMatch,
     status |-> resp.status, etag |-> resp.etag, rev |-> resp.rev]

----------------------------------------------------------------------------
(* Text.  A Python str is a sequence of characters, each a one-character   *)
(* string; "nbsp" stands for U+00A0.  Python values are tagged: None, int, *)
(* bool, float and str.  A float is the decimal m / 10^k with k minimal,   *)
(* which is what str() prints of the floats used here.                     *)

DigitChars == <<"0", "1", "2", "3", "4", "5", "6", "7", "8", "9">>

Digits == {DigitChars[i] : i \in DOMAIN DigitChars}

DigitValue(c) == (CHOOSE i \in DOMAIN DigitChars : DigitChars[i] = c) - 1

Whitespace == {" ", "nbsp"}

UppercaseChars == <<"A", "B", "C", "D", "E", "F", "G", "H", "I", "J", "K", "L", "M", "N", "O", "P", "Q", "R", "S", "T", "U", "V", "W", "X", "Y", "Z">>
LowercaseChars == <<"a", "b", "c", "d", "e", "f", "g", "h", "i", "j", "k", "l", "m", "n", "o", "p", "q", "r", "s", "t", "u", "v", "w", "x", "y", "z">>

UppercaseSet == {UppercaseChars[i] : i \in DOMAIN UppercaseChars}

(* str.lower() of one character *)
LowerChar(c) ==
    IF c \in UppercaseSet
    THEN LowercaseChars[CHOOSE i \in DOMAIN UppercaseChars : UppercaseChars[i] = c]
    ELSE c

Lowered(text) == [i \in DOMAIN text |-> LowerChar(text[i])]

(* needle in text *)
Contains(text, needle) ==
    \E i \in 0..(Len(text) - Len(needle)) :
        SubSeq(text, i + 1, i + Len(needle)) = needle

RECURSIVE Pow10(_)
Pow10(k) == IF k = 0 THEN 1 ELSE 10 * Pow10(k - 1)

Abs(n) == IF n < 0 THEN -n ELSE n

(* the decimal digits of a natural number, and of one padded to a width *)
RECURSIVE NatChars(_)
NatChars(n) ==
    IF n < 10 THEN <<DigitChars[n + 1]>>
    ELSE NatChars(n \div 10) \o <<DigitChars[(n % 10) + 1]>>

RECURSIVE PadChars(_, _)
PadChars(n, width) ==
    IF width = 0 THEN <<>>
    ELSE PadChars(n \div 10, width - 1) \o <<DigitChars[(n % 10) + 1]>>

(* the number a run of digits denotes *)
RECURSIVE DigitsValue(_)
DigitsValue(ds) ==
    IF ds = <<>> THEN 0
    ELSE 10 * DigitsValue(SubSeq(ds, 1, Len(ds) - 1)) + DigitValue(ds[Len(ds)])

NoneV == [type |-> "none"]
IntV(n) == [type |-> "int", v |-> n]
BoolV(b) == [type |-> "bool", b |-> b]
StrV(text) == [type |-> "str", text |-> text]

RECURSIVE FloatV(_, _)
FloatV(m, k) ==
    IF k > 0 /\ m % 10 = 0 THEN FloatV(m \div 10, k - 1)
    ELSE [type |-> "float", m |-> m, k |-> k]

(* str(value) *)
Str(value) ==
    IF value.type = "str" THEN value.text
    ELSE IF value.type = "none" THEN <<"N", "o", "n", "e">>
    ELSE IF value.type = "bool" THEN (IF value.b THEN <<"T", "r", "u", "e">> ELSE <<"F", "a", "l", "s", "e">>)
    ELSE IF value.type = "int"
    THEN (IF value.v < 0 THEN <<"-">> ELSE <<>>) \o NatChars(Abs(value.v))
    ELSE (IF value.m < 0 THEN <<"-">> ELSE <<>>)
         \o NatChars(Abs(value.m) \div Pow10(value.k))
         \o <<".">>
         \o (IF value.k = 0 THEN <<"0">>
             ELSE PadChars(Abs(value.m) % Pow10(value.k), value.k))

(* str.strip() *)
RECURSIVE Strip(_)
Strip(text) ==
    IF text = <<>> THEN text
    ELSE IF text[1] \in Whitespace THEN Strip(Tail(text))
    ELSE IF text[Len(text)] \in Whitespace THEN Strip(SubSeq(text, 1, Len(text) - 1))
    ELSE text

(* str.replace(old, new) for single characters *)
Replace(text, old, new) == [i \in DOMAIN text |-> IF text[i] = old THEN new ELSE text[i]]

(* what a call returns, or the exception it raises *)
Returns(value) == [exc |-> "none", ret |-> value]
Raises(kind) == [exc |-> kind, ret |-> NoneV]

(* int(text): whitespace around, an optional sign, digits *)
ParseInt(text) ==
    LET stripped == Strip(text)
        signed == stripped # <<>> /\ stripped[1] \in {"-", "+"}
        body == IF signed THEN Tail(stripped) ELSE stripped
    IN  IF body # <<>> /\ \A i \in DOMAIN body : body[i] \in Digits
        THEN Returns(IntV(IF signed /\ stripped[1] = "-"
                          THEN -DigitsValue(body) ELSE DigitsValue(body)))
        ELSE Raises("ValueError")

(* round(value) of a float: to the nearest integer, a tie to the even one *)
Round(value) ==
    LET unit == Pow10(value.k)
        q == value.m \div unit
        twice == 2 * (value.m % unit)
    IN  IF twice < unit THEN q
        ELSE IF twice > unit THEN q + 1
        ELSE IF q % 2 = 0 THEN q ELSE q + 1

(* _number_pattern.sub("", text) *)
NumberPatternSub(text) == SelectSeq(text, LAMBDA c : c \in Digits \cup {"-"})

(* normalize_number *)
NormalizeNumber(value) ==
    IF value.type = "none" THEN Returns(NoneV)
    ELSE IF value.type = "int" THEN Returns(IntV(value.v))
    ELSE IF value.type = "float" /\ value.k # 0 THEN Returns(IntV(Round(value)))
    ELSE LET text == Strip(Str(value))
             digits == NumberPatternSub(text)
         IN  IF text = <<>> \/ text = <<"-">> THEN Returns(NoneV)
             ELSE IF digits = <<>> THEN Returns(NoneV)
             ELSE ParseInt(digits)

(* the longest run of digits of text from position i on *)
RECURSIVE DigitRun(_, _)
DigitRun(text, i) ==
    IF i <= Len(text) /\ text[i] \in Digits
    THEN <<text[i]>> \o DigitRun(text, i + 1)
    ELSE <<>>

(* _percent_pattern.search(text): the leftmost match of                    *)
(* -?[0-9]+(?:[\.,][0-9]+)? as [found, neg, whole, sep, frac]              *)
PercentPatternSearch(text) ==
    LET starts == {i \in DOMAIN text :
                      \/ text[i] \in Digits
                      \/ text[i] = "-" /\ i < Len(text) /\ text[i + 1] \in Digits}
    IN  IF starts = {}
        THEN [found |-> FALSE, neg |-> FALSE, whole |-> <<>>, sep |-> ".",
              frac |-> <<>>]
        ELSE LET i == CHOOSE a \in starts : \A b \in starts : a <= b
                 neg == text[i] = "-"
                 from == IF neg THEN i + 1 ELSE i
                 whole == DigitRun(text, from)
                 dot == from + Len(whole)
                 frac == IF dot <= Len(text) /\ text[dot] \in {".", ","}
                         THEN DigitRun(text, dot + 1) ELSE <<>>
             IN  [found |-> TRUE, neg |-> neg, whole |-> whole,
                  sep |-> IF frac = <<>> THEN "." ELSE text[dot], frac |-> frac]

(* float(match.group()): a comma in the match is no float *)
ParseFloat(match) ==
    LET magnitude == DigitsValue(match.whole) * Pow10(Len(match.frac))
                     + DigitsValue(match.frac)
    IN  IF match.sep = ","
        THEN Raises("ValueError")
        ELSE Returns(FloatV(IF match.neg THEN -magnitude ELSE magnitude,
                            Len(match.frac)))

(* mutant of NormalizePercentage: the commas are not turned into dots *)
NormalizePercentageNoReplace(value) ==
    IF value.type = "none" THEN Returns(NoneV)
    ELSE IF value.type = "int" THEN Returns(FloatV(value.v, 0))
    ELSE IF value.type = "float" THEN Returns(value)
    ELSE LET text == Str(value)
             match == PercentPatternSearch(text)
         IN  IF match.found THEN ParseFloat(match)
             ELSE Returns(NoneV)

(* normalize_percentage *)
NormalizePercentage(value) ==
    IF value.type = "none" THEN Returns(NoneV)
    ELSE IF value.type = "int" THEN Returns(FloatV(value.v, 0))
    ELSE IF value.type = "float" THEN Returns(value)
    ELSE LET text == Replace(Str(value), ",", ".")
             match == PercentPatternSearch(text)
         IN  IF match.found THEN ParseFloat(match)
             ELSE Returns(NoneV)

----------------------------------------------------------------------------
(* ElectionScraper *)

InsertDescBy(acc, x, field) ==
    LET k == Cardinality({i \in DOMAIN acc : acc[i][field].v >= x[field].v})
    IN  SubSeq(acc, 1, k) \o <<x>> \o SubSeq(acc, k + 1, Len(acc))

InsertAscBy(acc, x, field) ==
    LET k == Cardinality({i \in DOMAIN acc : acc[i][field].v <= x[field].v})
    IN  SubSeq(acc, 1, k) \o <<x>> \o SubSeq(acc, k + 1, Len(acc))

RECURSIVE SortDescBy(_, _)
SortDescBy(s, field) ==
    IF s = <<>> THEN <<>>
    ELSE InsertDescBy(SortDescBy(SubSeq(s, 1, Len(s) - 1), field), s[Len(s)], field)

RECURSIVE SortAscBy(_, _)
SortAscBy(s, field) ==
    IF s = <<>> THEN <<>>
    ELSE InsertAscBy(SortAscBy(SubSeq(s, 1, Len(s) - 1), field), s[Len(s)], field)

BuildDataUrl(year, resource) == [base |-> "appdata", year |-> year, path |-> resource]

BuildAppUrl(year, resource) == [base |-> "app", year |-> year, path |-> resource]

(* response.text, by the shape of the body: an error page of the server   *)
(* in one of its spellings, a page that is no JSON, a JSON array, a JSON    *)
(* object without its summary row, the published document.                 *)
BodyText(shape) ==
    IF shape = "marker" THEN <<"c", "h", "y", "b", "a", " ", "4", "0", "4">>
    ELSE IF shape = "Marker" THEN <<"<", "h", "1", ">", "P", "a", "g", "e", " ", "N", "o", "t", " ", "F", "o", "u", "n", "d", "<", "/", "h", "1", ">">>
    ELSE IF shape = "MARKER" THEN <<"C", "H", "Y", "B", "A", " ", "4", "0", "4">>
    ELSE IF shape = "badjson" THEN <<"<", "h", "t", "m", "l", ">">>
    ELSE IF shape = "nondict" THEN <<"[", "]">>
    ELSE IF shape = "short" THEN <<"{", "}">>
    ELSE IF shape = "ok" THEN <<"{", "p", "r", "e", "h", "l", "e", "d", ",", "v", "y", "s", "l", "e", "d", "k", "y", "}">>
    ELSE <<>>

(* mutant of HasNotFoundMarker: the markers are looked for as spelled *)
HasNotFoundMarkerExact(text) ==
    \/ Contains(text, <<"c", "h", "y", "b", "a", " ", "4", "0", "4">>)
    \/ Contains(text, <<"p", "a", "g", "e", " ", "n", "o", "t", " ", "f", "o", "u", "n", "d">>)

(* scraper.py 219-220 *)
HasNotFoundMarker(text) ==
    LET lowered == SubSeq(Lowered(text), 1, Len(text))
    IN  \/ Contains(lowered, <<"c", "h", "y", "b", "a", " ", "4", "0", "4">>)
        \/ Contains(lowered, <<"p", "a", "g", "e", " ", "n", "o", "t", " ", "f", "o", "u", "n", "d">>)

(* scraper.py 200-212: the reason a problem+json answer gives *)
ProblemReason(resp) == IF resp.shape = "problem" THEN "problem message" ELSE Null

(* _fetch_json: the outcome of one GET of a data resource. *)
FetchJson(year, resource, resp) ==
    IF resp.status = TransportError
    THEN [exc |-> ElectionDataUnavailable(year, resource, NoNum, Null), rev |-> 0]
    ELSE IF resp.status # 200
    THEN [exc |-> ElectionDataUnavailable(year, resource, resp.status,
                                          ProblemReason(resp)),
          rev |-> 0]
    ELSE IF HasNotFoundMarker(BodyText(resp.shape))
    THEN [exc |-> ElectionDataUnavailable(year, resource, resp.status, "page not found"),
          rev |-> 0]
    ELSE IF resp.shape \in {"badjson", "nondict"}
    THEN [exc |-> OtherError("RuntimeError"), rev |-> 0]
    ELSE [exc |-> NoExc, rev |-> resp.rev]

(* The JSON documents the two data resources publish, per revision.  The   *)
(* cells are Python values; party and region names are JSON strings, kept  *)
(* whole.  prehled is the summary row, vysledky the result rows            *)
(* [number, name, votes, share, mandates], kraje the regions by key, in    *)
(* the order of the document.                                              *)
CelkemPayload(rev) ==
    [prehled |-> <<IntV(200), IntV(IF rev = 1 THEN 114 ELSE 200),
                   FloatV(IF rev = 1 THEN 57 ELSE 100, 0), IntV(1000), IntV(100 * rev),
                   FloatV(10 * rev, 0), NoneV, NoneV, IntV(100 * rev), IntV(99 * rev),
                   FloatV(99, 0)>>,
     vysledky |-> << <<IntV(1), "SPOLU", IntV(30 * rev), FloatV(30, 0), IntV(3 * (rev - 1))>>,
                     <<IntV(2), "ANO", IntV(40 * rev), FloatV(40, 0), IntV(4 * (rev - 1))>> >>]

Region(key, raw) == [key |-> key, raw |-> raw]

MapaPayload(rev) ==
    [kraje |-> << Region(<<"2">>, [kstrana |-> IntV(2), kstranaZkratka |-> "ANO 2011",
                                   hlasu |-> IntV(7), krajNazev |-> "Stredocesky"]),
                  Region(<<"1">>, [kstrana |-> IntV(9), kstranaZkratka |-> "STAN",
                                   hlasu |-> IntV(5), krajNazev |-> "Praha"]) >>]

(* Python truth value of a value, and `value or default` *)
IsTruthy(value) ==
    IF value.type = "none" THEN FALSE
    ELSE IF value.type = "int" THEN value.v # 0
    ELSE IF value.type = "float" THEN value.m # 0
    ELSE IF value.type = "bool" THEN value.b
    ELSE value.text # <<>>

Or(value, default) == IF IsTruthy(value) THEN value ELSE default

(* isinstance(value, (int, float)) and value >= n *)
IsNumberAtLeast(value, n) ==
    IF value.type = "int" THEN value.v >= n
    ELSE IF value.type = "float" THEN value.m >= n * Pow10(value.k)
    ELSE IF value.type = "bool" THEN (IF value.b THEN 1 ELSE 0) >= n
    ELSE FALSE

(* round(100.0 * part / total, 2) for total # 0 *)
RoundedPercent(part, total) ==
    LET n == IF total < 0 THEN -10000 * part ELSE 10000 * part
        d == Abs(total)
        q == n \div d
        twice == 2 * (n % d)
    IN  FloatV(IF twice < d THEN q
               ELSE IF twice > d THEN q + 1
               ELSE IF q % 2 = 0 THEN q ELSE q + 1, 2)

(* ElectionScraper.__init__: the fields the methods read and write.  reqs  *)
(* logs the requests the object has sent and steps the public methods in   *)
(* the order they were entered.                                            *)
NoNationalData == [is_none |-> TRUE, payload |-> EmptyDict]

ElectionScraper(year, lang) ==
    [year |-> year, lang |-> lang, resource_headers |-> EmptyDict,
     national_data |-> NoNationalData, party_lookup |-> EmptyDict,
     reqs |-> <<>>, steps |-> <<>>]

(* what a method call leaves: the exception or the value, and the object *)
Done(ret, self) == [exc |-> NoExc, ret |-> ret, self |-> self]

Failed(exc, self) == [exc |-> exc, ret |-> EmptyDict, self |-> self]

Entered(self, method) == [self EXCEPT !.steps = Append(@, method)]

(* The upstream: per resource the answer to a GET and the JSON document an *)
(* "ok" body holds.                                                        *)
Body(resource, resp) ==
    IF resp.shape # "ok" THEN EmptyDict
    ELSE IF resource = PRIMARY_RESOURCE THEN CelkemPayload(resp.rev)
    ELSE MapaPayload(resp.rev)

Served(resp, body) == [resp |-> resp, body |-> body]

Upstream(rc, rm) ==
    (PRIMARY_RESOURCE :> Served(rc, Body(PRIMARY_RESOURCE, rc)))
    @@ (REGION_RESOURCE :> Served(rm, Body(REGION_RESOURCE, rm)))

(* A value computed once and then used: Use applied to the value.          *)
Bind(computed, Use(_)) == CHOOSE used \in {Use(once) : once \in {computed}} : TRUE

(* self._fetch_json(resource): the request is sent, the headers of a 200   *)
(* answer are kept (scraper.py 217), the payload is returned.              *)
SelfFetchJson(self, resource, web) ==
    LET resp == web[resource].resp
        sent == [self EXCEPT !.reqs = Append(@, Request(self.year, resource, Null, resp))]
        heard == IF resp.status = 200
                 THEN [sent EXCEPT !.resource_headers = Put(@, resource, Headers(resp))]
                 ELSE sent
    IN  Bind(FetchJson(self.year, resource, resp), LAMBDA out :
            IF Raised(out) THEN Failed(out.exc, heard) ELSE Done(web[resource].body, heard))

(* mutant of GetNationalData: the document is fetched at every call *)
GetNationalDataUncached(self, web) ==
    Bind(SelfFetchJson(self, PRIMARY_RESOURCE, web), LAMBDA got :
        IF Raised(got) THEN got
        ELSE Done(got.ret, [got.self EXCEPT
                               !.national_data = [is_none |-> FALSE, payload |-> got.ret]]))

(* _get_national_data *)
GetNationalData(self, web) ==
    IF self.national_data.is_none
    THEN Bind(SelfFetchJson(self, PRIMARY_RESOURCE, web), LAMBDA got :
             IF Raised(got) THEN got
             ELSE Done(got.ret, [got.self EXCEPT
                                    !.national_data = [is_none |-> FALSE, payload |-> got.ret]]))
    ELSE Done(self.national_data.payload, self)

(* _get_number and _get_float of fetch_summary; index counts from 0 *)
GetNumber(values, index) ==
    IF index >= Len(values) THEN Returns(NoneV) ELSE NormalizeNumber(values[index + 1])

GetFloat(values, index) ==
    IF index >= Len(values) THEN Returns(NoneV) ELSE NormalizePercentage(values[index + 1])

(* mutant of InvalidVotes: the difference is taken the other way round *)
InvalidVotesSwapped(envelopes_returned, valid_votes) ==
    IF envelopes_returned.type # "none" /\ valid_votes.type # "none"
    THEN LET invalid == valid_votes.v - envelopes_returned.v
         IN  [invalid_votes |-> IntV(invalid),
              invalid_votes_percent |->
                  IF envelopes_returned.v # 0
                  THEN RoundedPercent(invalid, envelopes_returned.v)
                  ELSE NoneV]
    ELSE [invalid_votes |-> NoneV, invalid_votes_percent |-> NoneV]

(* scraper.py 274-286 *)
InvalidVotes(envelopes_returned, valid_votes) ==
    IF envelopes_returned.type # "none" /\ valid_votes.type # "none"
    THEN LET invalid == envelopes_returned.v - valid_votes.v
         IN  [invalid_votes |-> IntV(invalid),
              invalid_votes_percent |->
                  IF envelopes_returned.v # 0
                  THEN RoundedPercent(invalid, envelopes_returned.v)
                  ELSE NoneV]
    ELSE [invalid_votes |-> NoneV, invalid_votes_percent |-> NoneV]

(* the summary of a row of nine cells or more (scraper.py 262-287) *)
SummaryOf(row) ==
    Bind([i \in {0, 1, 3, 4, 8, 9} |-> GetNumber(row, i)]
         @@ [i \in {2, 5, 10} |-> GetFloat(row, i)], LAMBDA number :
        IF \E i \in DOMAIN number : number[i].exc # "none"
        THEN Raises("ValueError")
        ELSE Bind(InvalidVotes(number[8].ret, number[9].ret), LAMBDA invalid :
                Returns([wards_total |-> number[0].ret,
                         wards_processed |-> number[1].ret,
                         wards_processed_percent |-> number[2].ret,
                         voters_in_roll |-> number[3].ret,
                         envelopes_issued |-> number[4].ret,
                         turnout_percent |-> number[5].ret,
                         envelopes_returned |-> number[8].ret,
                         valid_votes |-> number[9].ret,
                         valid_votes_percent |-> number[10].ret,
                         invalid_votes |-> invalid.invalid_votes,
                         invalid_votes_percent |-> invalid.invalid_votes_percent])))

(* fetch_summary *)
FetchSummary(self, web) ==
    Bind(GetNationalData(Entered(self, "fetch_summary"), web), LAMBDA got :
        IF Raised(got) THEN got
        ELSE IF Len(Get(got.ret, "prehled", <<>>)) < 9
        THEN Failed(OtherError("RuntimeError"), got.self)
        ELSE Bind(SummaryOf(got.ret.prehled), LAMBDA summary :
                IF summary.exc # "none" THEN Failed(OtherError(summary.exc), got.self)
                ELSE Done(summary.ret, got.self)))

(* one pass of the loop of fetch_party_results: acc holds the exception,   *)
(* the results so far and _party_lookup                                    *)
PartyRow(acc, entry) ==
    IF acc.exc # "none" \/ Len(entry) < 4 THEN acc
    ELSE Bind(NormalizeNumber(entry[1]), LAMBDA party_number :
            IF party_number.exc # "none" THEN [acc EXCEPT !.exc = party_number.exc]
            ELSE IF party_number.ret.type = "none" THEN acc
            ELSE Bind(NormalizeNumber(entry[3]), LAMBDA votes :
                    IF votes.exc # "none" THEN [acc EXCEPT !.exc = votes.exc]
                    ELSE Bind(NormalizePercentage(entry[4]), LAMBDA vote_share :
                            IF vote_share.exc # "none"
                            THEN [acc EXCEPT !.exc = vote_share.exc]
                            ELSE [acc EXCEPT
                                    !.lookup = Put(@, party_number.ret, entry[2]),
                                    !.results = Append(@,
                                        PartyResult(party_number.ret, entry[2],
                                                    Or(votes.ret, IntV(0)),
                                                    Or(vote_share.ret, FloatV(0, 0))))])))

(* the loop of fetch_party_results over the first n rows *)
RECURSIVE PartyRows(_, _)
PartyRows(entries, n) ==
    IF n = 0 THEN [exc |-> "none", results |-> <<>>, lookup |-> EmptyDict]
    ELSE Bind(PartyRows(entries, n - 1), LAMBDA acc : PartyRow(acc, entries[n]))

(* mutant of FetchPartyResults: the results stay in the order of the feed *)
FetchPartyResultsUnsorted(self, web) ==
    Bind(GetNationalData(Entered(self, "fetch_party_results"), web), LAMBDA got :
        IF Raised(got) THEN got
        ELSE Bind(PartyRows(Get(got.ret, "vysledky", <<>>),
                            Len(Get(got.ret, "vysledky", <<>>))), LAMBDA rows :
                IF rows.exc # "none"
                THEN Failed(OtherError(rows.exc),
                            [got.self EXCEPT !.party_lookup = rows.lookup])
                ELSE Done(rows.results,
                          [got.self EXCEPT !.party_lookup = rows.lookup])))

(* fetch_party_results *)
FetchPartyResults(self, web) ==
    Bind(GetNationalData(Entered(self, "fetch_party_results"), web), LAMBDA got :
        IF Raised(got) THEN got
        ELSE Bind(PartyRows(Get(got.ret, "vysledky", <<>>),
                            Len(Get(got.ret, "vysledky", <<>>))), LAMBDA rows :
                IF rows.exc # "none"
                THEN Failed(OtherError(rows.exc),
                            [got.self EXCEPT !.party_lookup = rows.lookup])
                ELSE Done(SortDescBy(rows.results, "votes"),
                          [got.self EXCEPT !.party_lookup = rows.lookup])))

(* self._party_lookup.get(party_number if party_number is not None else -1, default) *)
LookupParty(lookup, party_number, default) ==
    Get(lookup, IF party_number.type = "none" THEN IntV(-1) ELSE party_number, default)

(* one pass of the loop of fetch_seat_allocation *)
SeatRow(acc, entry, lookup) ==
    IF acc.exc # "none" \/ Len(entry) < 5 THEN acc
    ELSE Bind(NormalizeNumber(entry[5]), LAMBDA mandates :
            IF mandates.exc # "none" THEN [acc EXCEPT !.exc = mandates.exc]
            ELSE IF Or(mandates.ret, IntV(0)).v <= 0 THEN acc
            ELSE Bind(NormalizeNumber(entry[1]), LAMBDA party_number :
                    IF party_number.exc # "none"
                    THEN [acc EXCEPT !.exc = party_number.exc]
                    ELSE [acc EXCEPT !.results = Append(@,
                            SeatAllocation(LookupParty(lookup, party_number.ret, entry[2]),
                                           mandates.ret, Null))]))

(* the loop of fetch_seat_allocation over the first n rows *)
RECURSIVE SeatRows(_, _, _)
SeatRows(entries, n, lookup) ==
    IF n = 0 THEN [exc |-> "none", results |-> <<>>]
    ELSE Bind(SeatRows(entries, n - 1, lookup), LAMBDA acc :
            SeatRow(acc, entries[n], lookup))

(* fetch_seat_allocation *)
FetchSeatAllocation(self, web) ==
    Bind(GetNationalData(Entered(self, "fetch_seat_allocation"), web), LAMBDA got :
        IF Raised(got) THEN got
        ELSE Bind(SeatRows(Get(got.ret, "vysledky", <<>>),
                           Len(Get(got.ret, "vysledky", <<>>)),
                           got.self.party_lookup), LAMBDA rows :
                IF rows.exc # "none" THEN Failed(OtherError(rows.exc), got.self)
                ELSE Done(SortDescBy(rows.results, "mandates"), got.self)))

(* one RegionLeader of fetch_region_leaders (scraper.py 361-387) *)
LeaderOf(year, lookup, region_id, raw) ==
    Bind(NormalizeNumber(Get(raw, "kstrana", NoneV)), LAMBDA party_number :
        Bind(<<NormalizeNumber(Get(raw, "hlasu", NoneV)),
               NormalizePercentage(Get(raw, "procHlasu", NoneV)),
               NormalizePercentage(Get(raw, "procZprac", NoneV))>>, LAMBDA cells :
            IF party_number.exc # "none" THEN Raises(party_number.exc)
            ELSE IF \E i \in 1..3 : cells[i].exc # "none" THEN Raises("ValueError")
            ELSE LET party_name == LookupParty(lookup, party_number.ret,
                                               Get(raw, "kstranaZkratka", ""))
                     color_code == Get(raw, "kstranaBarva", Null)
                 IN  Returns(RegionLeader(
                         region_id, Get(raw, "krajNazev", ""),
                         IF party_name = Null THEN "" ELSE party_name,
                         cells[2].ret, cells[1].ret, cells[3].ret,
                         IF Truthy(color_code) THEN "#" \o color_code ELSE Null,
                         BuildAppUrl(year, IF region_id.v # 0
                                           THEN <<"cs/results", region_id.v>>
                                           ELSE <<"cs/results">>)))))

(* one pass of the loop of fetch_region_leaders *)
RegionRow(acc, region, year, lookup) ==
    IF acc.exc # "none" THEN acc
    ELSE Bind(ParseInt(region.key), LAMBDA region_id :
            IF region_id.exc # "none" THEN acc
            ELSE Bind(LeaderOf(year, lookup, region_id.ret, region.raw), LAMBDA leader :
                    IF leader.exc # "none" THEN [acc EXCEPT !.exc = leader.exc]
                    ELSE [acc EXCEPT !.results = Append(@, leader.ret)]))

(* the loop of fetch_region_leaders over the first n regions *)
RECURSIVE RegionRows(_, _, _, _)
RegionRows(kraje, n, year, lookup) ==
    IF n = 0 THEN [exc |-> "none", results |-> <<>>]
    ELSE Bind(RegionRows(kraje, n - 1, year, lookup), LAMBDA acc :
            RegionRow(acc, kraje[n], year, lookup))

(* fetch_region_leaders once the party lookup is ready (scraper.py 350-389) *)
LeadersOf(ready, web) ==
    IF Raised(ready) THEN ready
    ELSE Bind(SelfFetchJson(ready.self, REGION_RESOURCE, web), LAMBDA got :
            IF Raised(got) THEN got
            ELSE Bind(RegionRows(Get(got.ret, "kraje", <<>>),
                                 Len(Get(got.ret, "kraje", <<>>)),
                                 got.self.year, got.self.party_lookup), LAMBDA rows :
                    IF rows.exc # "none" THEN Failed(OtherError(rows.exc), got.self)
                    ELSE Done(SortAscBy(rows.results, "region_id"), got.self)))

(* mutant of FetchRegionLeaders: the names are resolved with the lookup as *)
(* it is, also when no party results were extracted yet                    *)
FetchRegionLeadersUnprepared(self, web) ==
    Bind(Entered(self, "fetch_region_leaders"), LAMBDA entered :
        Bind(Done(<<>>, entered), LAMBDA ready : LeadersOf(ready, web)))

(* fetch_region_leaders *)
FetchRegionLeaders(self, web) ==
    Bind(Entered(self, "fetch_region_leaders"), LAMBDA entered :
        Bind(IF DOMAIN entered.party_lookup = {}
             THEN FetchPartyResults(entered, web)
             ELSE Done(<<>>, entered), LAMBDA ready : LeadersOf(ready, web)))

(* what fetch_all leaves: as a method call, with the requests it sent *)
Fetched(out, self, dataset) ==
    [exc |-> out.exc, dataset |-> dataset, self |-> out.self,
     reqs |-> SubSeq(out.self.reqs, Len(self.reqs) + 1, Len(out.self.reqs))]

(* fetch_all; fetched is the clock when the metadata is stamped *)
FetchAll(self, web, fetched) ==
    Bind(FetchSummary(self, web), LAMBDA summary :
      IF Raised(summary) THEN Fetched(summary, self, EmptyDict)
      ELSE Bind(FetchPartyResults(summary.self, web), LAMBDA parties :
        IF Raised(parties) THEN Fetched(parties, self, EmptyDict)
        ELSE Bind(FetchSeatAllocation(parties.self, web), LAMBDA seats :
          IF Raised(seats) THEN Fetched(seats, self, EmptyDict)
          ELSE Bind(FetchRegionLeaders(seats.self, web), LAMBDA regions :
            IF Raised(regions) THEN Fetched(regions, self, EmptyDict)
            ELSE Fetched(regions, self,
                    [metadata |-> [year |-> self.year, lang |-> self.lang,
                                   fetched_at |-> fetched,
                                   source |-> BuildDataUrl(self.year, PRIMARY_RESOURCE),
                                   resource_headers |-> regions.self.resource_headers],
                     summary |-> summary.ret,
                     parties |-> parties.ret,
                     seats |-> seats.ret,
                     regions |-> regions.ret])))))

(* no ElectionScraper object is held outside _fetch_dataset, and no        *)
(* upstream is fixed, where gather_election_data is called                 *)
NoScraper == ElectionScraper(NoNum, Null)

NoWeb == Upstream(NoResponse, NoResponse)

(* _fetch_dataset; rc and rm answer the two data requests *)
FetchDataset(year, lang, prefetched, hasPrefetched, rc, rm, fetched) ==
    Bind(ElectionScraper(year, lang), LAMBDA scraper :
        Bind(Upstream(rc, rm), LAMBDA web :
            FetchAll(IF hasPrefetched
                     THEN [scraper EXCEPT !.resource_headers =
                              Put(@, PrimaryResourceOf(lang), Headers(prefetched))]
                     ELSE scraper,
                     web, fetched)))

(* _fetch_dataset over every answer of the network.  Its result depends   *)
(* on the clock only through metadata.fetched_at, which fetch_all stamps   *)
(* last, so the results are computed once, at clock 0.                     *)
FetchDatasetResults ==
    [year \in Years, lang \in {Upper(langIn) : langIn \in LangInputs},
     prefetched \in ConditionalResponses, hasPrefetched \in BOOLEAN,
     a \in DataResponses |->
        FetchDataset(year, lang, prefetched, hasPrefetched, a[1], a[2], 0)] @@ <<>>

(* _fetch_dataset when fetch_all reads the clock at `fetched` *)
FetchDatasetAt(year, lang, prefetched, hasPrefetched, rc, rm, fetched) ==
    LET got == FetchDatasetResults[year, lang, prefetched, hasPrefetched, <<rc, rm>>]
    IN  IF Raised(got) THEN got
        ELSE [got EXCEPT !.dataset.metadata.fetched_at = fetched]

----------------------------------------------------------------------------
(* Disk caching utilities.  A cache file is absent, holds text that is no  *)
(* JSON ("garbage"), holds a JSON value that is no object ("nonobject"),   *)
(* or holds a JSON object, its payload.                                    *)

AbsentFile == [kind |-> "absent", payload |-> EmptyDict]
GarbageFile == [kind |-> "garbage", payload |-> EmptyDict]
NonObjectFile == [kind |-> "nonobject", payload |-> EmptyDict]
ObjectFile(payload) == [kind |-> "object", payload |-> payload]

RecordLists == {"parties", "seats", "regions"}

AsDict(value) == Pop(value, "cls")

(* _convert_serializable / _serialize_dataset *)
SerializeDataset(dataset) ==
    [k \in DOMAIN dataset |->
        IF k \in RecordLists
        THEN [i \in DOMAIN dataset[k] |-> AsDict(dataset[k][i])]
        ELSE dataset[k]]

FieldsOf(k) ==
    IF k = "parties" THEN PartyFields
    ELSE IF k = "seats" THEN SeatFields ELSE RegionFields

ClassOf(k) ==
    IF k = "parties" THEN "PartyResult"
    ELSE IF k = "seats" THEN "SeatAllocation" ELSE "RegionLeader"

(* mutant of DeserializeDataset: the regions are left as plain dicts *)
DeserializeSkipsRegions(payload) ==
    LET items(k) == Get(payload, k, <<>>)
        rebuilt == RecordLists \ {"regions"}
    IN  IF \A k \in rebuilt : \A i \in DOMAIN items(k) : DOMAIN items(k)[i] = FieldsOf(k)
        THEN [exc |-> NoExc,
              data |-> [k \in DOMAIN payload \cup rebuilt |->
                          IF k \in rebuilt
                          THEN [i \in DOMAIN items(k) |->
                                   Put(items(k)[i], "cls", ClassOf(k))]
                          ELSE payload[k]]]
        ELSE [exc |-> OtherError("TypeError"), data |-> EmptyDict]

(* _deserialize_dataset: building a dataclass from an item's keys raises   *)
(* TypeError unless the keys are exactly the dataclass fields.             *)
DeserializeDataset(payload) ==
    LET items(k) == Get(payload, k, <<>>)
        fits(k) == \A i \in DOMAIN items(k) : DOMAIN items(k)[i] = FieldsOf(k)
    IN  IF \A k \in RecordLists : fits(k)
        THEN [exc |-> NoExc,
              data |-> [k \in DOMAIN payload \cup RecordLists |->
                          IF k \in RecordLists
                          THEN [i \in DOMAIN items(k) |->
                                   Put(items(k)[i], "cls", ClassOf(k))]
                          ELSE payload[k]]]
        ELSE [exc |-> OtherError("TypeError"), data |-> EmptyDict]

(* The text of a cache file.  json.dump(payload, ensure_ascii=False,       *)
(* indent=2) writes the members of the payload as text, open(...,          *)
(* encoding="utf-8") encodes the text to bytes.  Strings are spelled       *)
(* character by character; the names of the regions are the strings that   *)
(* leave ASCII ("rcaron" stands for U+0159, two bytes in UTF-8), and of    *)
(* the data the text keeps them.  A byte is named by its character when    *)
(* ASCII and by its value in hex otherwise.                                *)
Spelling(s) ==
    IF s = "version" THEN <<"v", "e", "r", "s", "i", "o", "n">>
    ELSE IF s = "etag" THEN <<"e", "t", "a", "g">>
    ELSE IF s = "checked_at" THEN <<"c", "h", "e", "c", "k", "e", "d", "_", "a", "t">>
    ELSE IF s = "data" THEN <<"d", "a", "t", "a">>
    ELSE IF s = "regions" THEN <<"r", "e", "g", "i", "o", "n", "s">>
    ELSE IF s = "region_name" THEN <<"r", "e", "g", "i", "o", "n", "_", "n", "a", "m", "e">>
    ELSE IF s = "e1" THEN <<"e", "1">>
    ELSE IF s = "e2" THEN <<"e", "2">>
    ELSE IF s = "Praha" THEN <<"P", "r", "a", "h", "a">>
    ELSE IF s = "Stredocesky"
    THEN <<"S", "t", "rcaron", "e", "d", "o", "ccaron", "e", "s", "k", "yacute">>
    ELSE <<>>

Utf8(char) ==
    IF char = "rcaron" THEN <<"C5", "99">>
    ELSE IF char = "ccaron" THEN <<"C4", "8D">>
    ELSE IF char = "yacute" THEN <<"C3", "BD">>
    ELSE IF char = "nbsp" THEN <<"C2", "A0">>
    ELSE <<char>>

LeadBytes == {"C2", "C3", "C4", "C5"}

ContinuationBytes == {"99", "8D", "BD", "A0"}

WideChars == {"rcaron", "ccaron", "yacute", "nbsp"}

(* text.encode("utf-8"): the bytes of the characters lo..hi *)
RECURSIVE EncodeRange(_, _, _)
EncodeRange(text, lo, hi) ==
    IF lo > hi THEN <<>>
    ELSE IF lo = hi THEN Utf8(text[lo])
    ELSE EncodeRange(text, lo, (lo + hi) \div 2)
         \o EncodeRange(text, ((lo + hi) \div 2) + 1, hi)

Encode(text) == EncodeRange(text, 1, Len(text))

(* bytes.decode("utf-8") is strict: a lead byte without its continuation   *)
(* byte, as at the end of a file cut inside a character, or a              *)
(* continuation byte alone, raises UnicodeDecodeError                      *)
IsMalformed(bytes) ==
    \E i \in DOMAIN bytes :
        \/ /\ bytes[i] \in LeadBytes
           /\ \/ i = Len(bytes)
              \/ ~\E c \in WideChars : Utf8(c) = <<bytes[i], bytes[i + 1]>>
        \/ /\ bytes[i] \in ContinuationBytes
           /\ (i = 1 \/ bytes[i - 1] \notin LeadBytes)

(* the characters of the well-formed bytes lo..hi *)
RECURSIVE DecodeRange(_, _, _)
DecodeRange(bytes, lo, hi) ==
    IF lo > hi THEN <<>>
    ELSE IF lo = hi
    THEN IF bytes[lo] \in ContinuationBytes THEN <<>>
         ELSE IF bytes[lo] \in LeadBytes
         THEN <<CHOOSE c \in WideChars : Utf8(c) = <<bytes[lo], bytes[lo + 1]>> >>
         ELSE <<bytes[lo]>>
    ELSE DecodeRange(bytes, lo, (lo + hi) \div 2)
         \o DecodeRange(bytes, ((lo + hi) \div 2) + 1, hi)

Decode(bytes) ==
    IF IsMalformed(bytes) THEN Raises("UnicodeDecodeError")
    ELSE Returns(StrV(DecodeRange(bytes, 1, Len(bytes))))

(* json.dump: the text of the payload *)
Indent(depth) == <<"\n">> \o [i \in 1..(2 * depth) |-> " "]

JsonString(s) == <<"\"">> \o Spelling(s) \o <<"\"">>

JsonKey(s, depth) == Indent(depth) \o JsonString(s) \o <<":", " ">>

DumpRegion(region, first) ==
    (IF first THEN <<>> ELSE <<",">>)
    \o Indent(3) \o <<"{">>
    \o JsonKey("region_name", 4) \o JsonString(region.region_name)
    \o Indent(3) \o <<"}">>

RECURSIVE DumpRegions(_, _)
DumpRegions(regions, n) ==
    IF n = 0 THEN <<>>
    ELSE DumpRegions(regions, n - 1) \o DumpRegion(regions[n], n = 1)

DumpText(payload) ==
    LET regions == Get(Get(payload, "data", EmptyDict), "regions", <<>>)
    IN  <<"{">>
        \o JsonKey("version", 1) \o NatChars(payload.version) \o <<",">>
        \o JsonKey("etag", 1)
        \o (IF payload.etag = Null THEN <<"n", "u", "l", "l">> ELSE JsonString(payload.etag))
        \o <<",">>
        \o JsonKey("checked_at", 1) \o NatChars(payload.checked_at) \o <<".", "0", ",">>
        \o JsonKey("data", 1) \o <<"{">>
        \o JsonKey("regions", 2) \o <<"[">>
        \o DumpRegions(regions, Len(regions))
        \o (IF regions = <<>> THEN <<>> ELSE Indent(2)) \o <<"]">>
        \o Indent(1) \o <<"}">>
        \o Indent(0) \o <<"}">>

(* what the file of a payload holds when all of it is written *)
FileBytes(payload) == Encode(DumpText(payload))

(* json.load accepts a text only when it is one JSON value: for a text     *)
(* that opens an object, when the brace that closes the object is its last *)
(* character, whitespace aside.  A quote after an odd run of backslashes   *)
(* is escaped; brackets and braces between quotes are text.                *)
IsOdd(n) == n % 2 = 1

Max(S) == CHOOSE i \in S : \A j \in S : i >= j

Min(S) == CHOOSE i \in S : \A j \in S : i <= j

QuotesOf(text) ==
    {i \in DOMAIN text :
        /\ text[i] = "\""
        /\ ~IsOdd(i - 1 - Max({0} \cup {j \in 1..(i - 1) : text[j] # "\\"}))}

IsWholeObject(text) ==
    /\ text # <<>>
    /\ text[1] = "{"
    /\ Bind(QuotesOf(text), LAMBDA quotes :
          Bind({i \in DOMAIN text :
                   /\ text[i] \in {"{", "[", "}", "]"}
                   /\ ~IsOdd(Cardinality({j \in quotes : j < i}))}, LAMBDA marks :
            Bind({i \in marks :
                     Cardinality({j \in marks : j <= i /\ text[j] \in {"{", "["}})
                        = Cardinality({j \in marks : j <= i /\ text[j] \in {"}", "]"}})},
                 LAMBDA closed :
                    /\ closed # {}
                    /\ \A i \in (Min(closed) + 1)..Len(text) : text[i] \in {" ", "\n"})))

(* A cache file that _store_cache is writing: the first `written` bytes of *)
(* the text of the payload are in the file.                                *)
PartialFile(payload, written) ==
    [kind |-> "partial", payload |-> payload, written |-> written]

(* path.open("r", encoding="utf-8") and json.load of a file in writing *)
ReadPartial(file) ==
    Bind(Decode(SubSeq(FileBytes(file.payload), 1, file.written)), LAMBDA text :
        IF text.exc # "none" THEN [exc |-> OtherError(text.exc), kind |-> "error"]
        ELSE IF IsWholeObject(text.ret.text) THEN [exc |-> NoExc, kind |-> "object"]
        ELSE [exc |-> NoExc, kind |-> "garbage"])

NotLoaded(exc) == [exc |-> exc, found |-> FALSE, entry |-> EmptyDict]

(* _load_cache *)
LoadCache(dsk, year, lang) ==
    Bind(dsk[CachePath(year, lang)], LAMBDA held :
    Bind(IF held.kind = "partial" THEN ReadPartial(held)
         ELSE [exc |-> NoExc, kind |-> held.kind], LAMBDA read :
    LET file == [kind |-> read.kind, payload |-> held.payload]
        payload == file.payload
        des == DeserializeDataset(Get(payload, "data", EmptyDict))
    IN  IF file.kind = "error" THEN NotLoaded(read.exc)
        ELSE IF file.kind = "absent" THEN NotLoaded(NoExc)
        ELSE IF file.kind = "garbage" THEN NotLoaded(NoExc)
        ELSE IF file.kind = "nonobject" THEN NotLoaded(OtherError("AttributeError"))
        ELSE IF Get(payload, "version", NoNum) # CACHE_VERSION THEN NotLoaded(NoExc)
        ELSE IF Raised(des) THEN NotLoaded(des.exc)
        ELSE [exc |-> NoExc, found |-> TRUE,
              entry |-> [path |-> CachePath(year, lang),
                         etag |-> Get(payload, "etag", Null),
                         checked_at |-> Get(payload, "checked_at", 0),
                         data |-> des.data]]))

(* mutant of StoreCache: the dataset is written as the caller sees it, with *)
(* a cache annotation                                                      *)
StoreCacheAnnotated(dsk, year, lang, dataset, etag, checked_at, clock) ==
    LET metadata == Get(dataset, "metadata", EmptyDict)
        cache_info == [hit |-> FALSE, revalidated |-> FALSE,
                       path |-> CachePath(year, lang),
                       checked_at |-> checked_at, etag |-> etag]
        snapshot == Put(dataset, "metadata", Put(metadata, "cache", cache_info))
        payload == [version |-> CACHE_VERSION,
                    etag |-> etag,
                    checked_at |-> IF checked_at = NoNum \/ checked_at = 0
                                   THEN clock ELSE checked_at,
                    data |-> SerializeDataset(snapshot)]
    IN  [dsk EXCEPT ![CachePath(year, lang)] = ObjectFile(payload)]

(* mutant of StoreCache: the payload is written without its version *)
StoreCacheUnversioned(dsk, year, lang, dataset, etag, checked_at, clock) ==
    LET snapshot == IF "metadata" \in DOMAIN dataset
                    THEN [dataset EXCEPT !.metadata = Pop(@, "cache")]
                    ELSE dataset
        payload == [etag |-> etag,
                    checked_at |-> IF checked_at = NoNum \/ checked_at = 0
                                   THEN clock ELSE checked_at,
                    data |-> SerializeDataset(snapshot)]
    IN  [dsk EXCEPT ![CachePath(year, lang)] = ObjectFile(payload)]

(* _store_cache; clock is time.time() at the write *)
StoreCache(dsk, year, lang, dataset, etag, checked_at, clock) ==
    LET snapshot == IF "metadata" \in DOMAIN dataset
                    THEN [dataset EXCEPT !.metadata = Pop(@, "cache")]
                    ELSE dataset
        payload == [version |-> CACHE_VERSION,
                    etag |-> etag,
                    checked_at |-> IF checked_at = NoNum \/ checked_at = 0
                                   THEN clock ELSE checked_at,
                    data |-> SerializeDataset(snapshot)]
    IN  [dsk EXCEPT ![CachePath(year, lang)] = ObjectFile(payload)]

(* _refresh_interval *)
RefreshInterval(summary) ==
    LET processed_pct == Get(summary, "wards_processed_percent", NoneV)
    IN  IF IsNumberAtLeast(processed_pct, 100)
        THEN FINAL_REFRESH_INTERVAL
        ELSE PARTIAL_REFRESH_INTERVAL

(* mutant of ShouldRevalidate: the boundary counts as fresh *)
ShouldRevalidateStrict(cache_entry, clock) ==
    LET summary == Get(cache_entry.data, "summary", EmptyDict)
        interval == RefreshInterval(summary)
        checked_at == Get(cache_entry, "checked_at", 0)
    IN  (clock - checked_at) > interval

(* _should_revalidate; clock is time.time() at the check *)
ShouldRevalidate(cache_entry, clock) ==
    LET summary == Get(cache_entry.data, "summary", EmptyDict)
        interval == RefreshInterval(summary)
        checked_at == Get(cache_entry, "checked_at", 0)
    IN  (clock - checked_at) >= interval

(* _extract_primary_etag *)
ExtractPrimaryEtag(dataset, lang) ==
    LET metadata == Get(dataset, "metadata", EmptyDict)
        headers_map == Get(metadata, "resource_headers", EmptyDict)
        resource_headers == Get(headers_map, PrimaryResourceOf(lang), EmptyDict)
    IN  IF Truthy(Get(resource_headers, "ETag", Null))
        THEN resource_headers["ETag"]
        ELSE Get(resource_headers, "etag", Null)

(* _annotate_cache_metadata; cache_entry is never empty at its call sites *)
AnnotateCacheMetadata(dataset, year, lang, cache_hit, revalidated, cache_entry) ==
    LET metadata == Get(dataset, "metadata", EmptyDict)
        cache_info == [hit |-> cache_hit,
                       revalidated |-> revalidated,
                       path |-> CachePath(year, lang),
                       checked_at |-> Get(cache_entry, "checked_at", NoNum),
                       etag |-> Get(cache_entry, "etag", Null)]
    IN  Put(dataset, "metadata", Put(metadata, "cache", cache_info))

----------------------------------------------------------------------------
(* Revalidation policy.  A run of _get_dataset_with_cache is recorded as   *)
(* whether it found a cache entry, whether the entry was stale, the        *)
(* requests it issued in order, the exception it raised (or NoExc), the    *)
(* dataset it returned, the disk it left and the clock when it ended.      *)

Run(year, loaded, stale, reqs, exc, dataset, dsk, t) ==
    [year |-> year, found |-> loaded.found, stale |-> stale, reqs |-> reqs,
     exc |-> exc, dataset |-> dataset, disk |-> dsk,
     clock |-> t + RequestSeconds * Len(reqs)]

(* mutant of RevalidatePrimaryResource: a 200 answer keeps the old etag *)
RevalidateKeepsEtag(year, lang, etag, resp) ==
    IF resp.status = TransportError
    THEN [exc |-> ElectionDataUnavailable(year, PrimaryResourceOf(lang), NoNum, Null),
          changed |-> FALSE, new_etag |-> Null]
    ELSE IF resp.status = 304
    THEN [exc |-> NoExc, changed |-> FALSE, new_etag |-> etag]
    ELSE IF resp.status = 200
    THEN [exc |-> NoExc, changed |-> TRUE, new_etag |-> etag]
    ELSE [exc |-> ElectionDataUnavailable(year, PrimaryResourceOf(lang), resp.status, Null),
          changed |-> FALSE, new_etag |-> Null]

(* mutant of RevalidatePrimaryResource: any status but 200 counts as       *)
(* "not changed", so the stale copy is served                              *)
RevalidateServesStale(year, lang, etag, resp) ==
    IF resp.status = TransportError
    THEN [exc |-> ElectionDataUnavailable(year, PrimaryResourceOf(lang), NoNum, Null),
          changed |-> FALSE, new_etag |-> Null]
    ELSE IF resp.status = 200
    THEN [exc |-> NoExc, changed |-> TRUE, new_etag |-> resp.etag]
    ELSE [exc |-> NoExc, changed |-> FALSE, new_etag |-> etag]

(* _revalidate_primary_resource: the outcome of the conditional GET *)
RevalidatePrimaryResource(year, lang, etag, resp) ==
    IF resp.status = TransportError
    THEN [exc |-> ElectionDataUnavailable(year, PrimaryResourceOf(lang), NoNum, Null),
          changed |-> FALSE, new_etag |-> Null]
    ELSE IF resp.status = 304
    THEN [exc |-> NoExc, changed |-> FALSE, new_etag |-> etag]
    ELSE IF resp.status = 200
    THEN [exc |-> NoExc, changed |-> TRUE, new_etag |-> resp.etag]
    ELSE [exc |-> ElectionDataUnavailable(year, PrimaryResourceOf(lang), resp.status, Null),
          changed |-> FALSE, new_etag |-> Null]

(* mutant of ServeCached: a cache hit also touches the entry on disk *)
ServeCachedTouches(year, lang, dsk, loaded, t) ==
    Run(year, loaded, FALSE, <<>>, NoExc,
        AnnotateCacheMetadata(loaded.entry.data, year, lang, TRUE, FALSE, loaded.entry),
        StoreCache(dsk, year, lang, loaded.entry.data, loaded.entry.etag, t, t), t)

(* The run that serves a fresh entry as it is (scraper.py 575-585). *)
ServeCached(year, lang, dsk, loaded, t) ==
    Run(year, loaded, FALSE, <<>>, NoExc,
        AnnotateCacheMetadata(loaded.entry.data, year, lang, TRUE, FALSE, loaded.entry),
        dsk, t)

(* mutant of FetchAndStore: a failed fetch drops the entry of the key *)
FetchAndStoreDropsOnFailure(year, lang, dsk, loaded, stale, first, c, new_etag, rc, rm, t) ==
    LET revalidated == first # <<>>
        clock == t + RequestSeconds * (Len(first) + 2)
        checked_at == clock
    IN  Bind(FetchDatasetAt(year, lang, c, revalidated, rc, rm, clock), LAMBDA got :
          LET resulting_etag == IF Truthy(new_etag) THEN new_etag
                                ELSE ExtractPrimaryEtag(got.dataset, lang)
          IN  IF Raised(got)
              THEN Run(year, loaded, stale, first \o got.reqs, got.exc, EmptyDict,
                       [dsk EXCEPT ![CachePath(year, lang)] = AbsentFile], t)
              ELSE Run(year, loaded, stale, first \o got.reqs, NoExc,
                       AnnotateCacheMetadata(got.dataset, year, lang, FALSE, revalidated,
                                             [etag |-> resulting_etag,
                                              checked_at |-> checked_at]),
                       StoreCache(dsk, year, lang, got.dataset, resulting_etag,
                                  checked_at, clock),
                       t))

(* The run that fetches everything and stores it (scraper.py 603-629).     *)
(* `first` holds the conditional request when one was made; c is then its  *)
(* 200 answer and new_etag the ETag it carried.  Both data requests are    *)
(* over when fetch_all stamps fetched_at and the policy reads checked_at.  *)
FetchAndStore(year, lang, dsk, loaded, stale, first, c, new_etag, rc, rm, t) ==
    LET revalidated == first # <<>>
        clock == t + RequestSeconds * (Len(first) + 2)
        checked_at == clock
    IN  Bind(FetchDatasetAt(year, lang, c, revalidated, rc, rm, clock), LAMBDA got :
          LET resulting_etag == IF Truthy(new_etag) THEN new_etag
                                ELSE ExtractPrimaryEtag(got.dataset, lang)
          IN  IF Raised(got)
              THEN Run(year, loaded, stale, first \o got.reqs, got.exc, EmptyDict,
                       dsk, t)
              ELSE Run(year, loaded, stale, first \o got.reqs, NoExc,
                       AnnotateCacheMetadata(got.dataset, year, lang, FALSE, revalidated,
                                             [etag |-> resulting_etag,
                                              checked_at |-> checked_at]),
                       StoreCache(dsk, year, lang, got.dataset, resulting_etag,
                                  checked_at, clock),
                       t))

(* mutant of TouchCached: the entry is stored with its old checked_at *)
TouchCachedKeepsClock(year, lang, dsk, loaded, first, t) ==
    LET clock == t + RequestSeconds * Len(first)
        etag == loaded.entry.etag
        cache_entry == loaded.entry
    IN  Run(year, loaded, TRUE, first, NoExc,
            AnnotateCacheMetadata(loaded.entry.data, year, lang, TRUE, TRUE, cache_entry),
            StoreCache(dsk, year, lang, loaded.entry.data, etag,
                       cache_entry.checked_at, clock),
            t)

(* The run that touches a revalidated entry (scraper.py 590-602). *)
TouchCached(year, lang, dsk, loaded, first, t) ==
    LET clock == t + RequestSeconds * Len(first)
        etag == loaded.entry.etag
        cache_entry == [loaded.entry EXCEPT !.checked_at = clock]
    IN  Run(year, loaded, TRUE, first, NoExc,
            AnnotateCacheMetadata(loaded.entry.data, year, lang, TRUE, TRUE, cache_entry),
            StoreCache(dsk, year, lang, loaded.entry.data, etag,
                       cache_entry.checked_at, clock),
            t)

(* The runs that revalidate a stale entry with an ETag (scraper.py 588-615) *)
RevalidateRuns(year, lang, dsk, loaded, t) ==
    LET etag == loaded.entry.etag
    IN  UNION {
          LET rv == RevalidatePrimaryResource(year, lang, etag, c)
              q == <<Request(year, PrimaryResourceOf(lang), etag, c)>>
          IN  IF Raised(rv)
              THEN {Run(year, loaded, TRUE, q, rv.exc, EmptyDict, dsk, t)}
              ELSE IF ~rv.changed
              THEN {TouchCached(year, lang, dsk, loaded, q, t)}
              ELSE {FetchAndStore(year, lang, dsk, loaded, TRUE, q, c, rv.new_etag,
                                  a[1], a[2], t) : a \in DataResponses}
          : c \in ConditionalResponses}

(* _get_dataset_with_cache: every run the policy can make for (year, lang) *)
(* when called at time t on disk dsk, over the answers of the network.     *)
GetDatasetWithCache(year, lang, dsk, t) ==
    LET loaded == LoadCache(dsk, year, lang)
        stale == loaded.found /\ ShouldRevalidate(loaded.entry, t)
    IN  IF Raised(loaded)
        THEN {Run(year, loaded, FALSE, <<>>, loaded.exc, EmptyDict, dsk, t)}
        ELSE IF loaded.found /\ ~stale
        THEN {ServeCached(year, lang, dsk, loaded, t)}
        ELSE IF loaded.found /\ Truthy(loaded.entry.etag)
        THEN RevalidateRuns(year, lang, dsk, loaded, t)
        ELSE {FetchAndStore(year, lang, dsk, loaded, stale, <<>>,
                            NoResponse, Null, a[1], a[2], t) : a \in DataResponses}

----------------------------------------------------------------------------
(* Fallback orchestrator *)

Stamp(dataset, effective_year, requested_year, fallback_used) ==
    LET metadata == Get(dataset, "metadata", EmptyDict)
    IN  Put(dataset, "metadata",
            Put(Put(Put(metadata, "effective_year", effective_year),
                    "requested_year", requested_year),
                "fallback_used", fallback_used))

(* mutant of StampPrimary: the primary year is flagged as a fallback *)
StampPrimaryAsFallback(dataset, year) == Stamp(dataset, year, year, TRUE)

(* mutant of StampFallback: effective and requested year are swapped *)
StampFallbackSwapped(fallback_dataset, year, fallback_year) ==
    Stamp(fallback_dataset, year, fallback_year, TRUE)

(* mutant of HasFallback: a fallback equal to the year is retried too *)
HasFallbackAnyYear(year, fallback_year) == ~(fallback_year = NoNum)

(* scraper.py 436-440 *)
StampPrimary(dataset, year) == Stamp(dataset, year, year, FALSE)

(* scraper.py 430-434 *)
StampFallback(fallback_dataset, year, fallback_year) ==
    Stamp(fallback_dataset, fallback_year, year, TRUE)

(* scraper.py 427: whether a failure of the requested year is retried *)
HasFallback(year, fallback_year) == ~(fallback_year = NoNum \/ fallback_year = year)

NoCall == [op |-> "none", year |-> NoNum, fallback |-> NoNum, lang |-> Null,
           at |-> NoNum, before |-> EmptyDict, runs |-> <<>>, exc |-> NoExc,
           dataset |-> EmptyDict]

(* What is kept of a run once the call is over. *)
Observed(r) ==
    [year |-> r.year, found |-> r.found, stale |-> r.stale, reqs |-> r.reqs,
     exc |-> r.exc, ended |-> r.clock]

(* What one gather_election_data call leaves behind. *)
Return(year, fallback, lang, t, runs, exc, dataset) ==
    /\ now' = runs[Len(runs)].clock
    /\ disk' = runs[Len(runs)].disk
    /\ calls' = calls + 1
    /\ last' = [op |-> "gather", year |-> year, fallback |-> fallback,
                lang |-> lang, at |-> t, before |-> disk,
                runs |-> [i \in DOMAIN runs |-> Observed(runs[i])],
                exc |-> exc, dataset |-> dataset]
    /\ UNCHANGED <<instance, upstream>>

(* The body of gather_election_data(year, fallback_year, lang), called     *)
(* `wait` seconds after the previous call ended.                           *)
GatherCall(year, fallback_year, langIn, wait) ==
       LET lang == Upper(langIn)
           t == now + wait
       IN  \E r1 \in GetDatasetWithCache(year, lang, disk, t) :
             IF r1.exc.kind = "ElectionDataUnavailable"
             THEN IF ~HasFallback(year, fallback_year)
                  THEN Return(year, fallback_year, lang, t, <<r1>>, r1.exc, EmptyDict)
                  ELSE \E r2 \in GetDatasetWithCache(fallback_year, lang, r1.disk, r1.clock) :
                         IF Raised(r2)
                         THEN Return(year, fallback_year, lang, t, <<r1, r2>>,
                                     r2.exc, EmptyDict)
                         ELSE Return(year, fallback_year, lang, t, <<r1, r2>>, NoExc,
                                     StampFallback(r2.dataset, year, fallback_year))
             ELSE IF Raised(r1)
             THEN Return(year, fallback_year, lang, t, <<r1>>, r1.exc, EmptyDict)
             ELSE Return(year, fallback_year, lang, t, <<r1>>, NoExc,
                         StampPrimary(r1.dataset, year))

GatherElectionData(year, fallback_year, langIn, wait) ==
    /\ calls < MaxCalls
    /\ GatherCall(year, fallback_year, langIn, wait)

----------------------------------------------------------------------------
(* Initial cache files: what earlier runs of the program, an older schema  *)
(* version or a damaged disk can have left under DATA/.                    *)

CachedData(year, rev, etag) ==
    SerializeDataset(
        FetchDataset(year, "EN", Response(200, etag, "ok", rev), Truthy(etag),
                     Response(200, Null, "ok", rev), Response(200, Null, "ok", 1),
                     StartTime).dataset)

Entry(year, version, etag, checked_at, rev) ==
    [version |-> version, etag |-> etag, checked_at |-> checked_at,
     data |-> CachedData(year, rev, etag)]

DamagedData(year, change) ==
    LET data == CachedData(year, 1, Null)
    IN  [data EXCEPT !.parties[1] =
            IF change = "lacks" THEN Pop(@, "vote_share") ELSE Put(@, "colour", Null)]

InitFiles(year) ==
    {AbsentFile, GarbageFile, NonObjectFile}
    \cup {ObjectFile(Entry(year, CACHE_VERSION + 1, "e1", StartTime, 1))}
    \cup {ObjectFile(Pop(Entry(year, CACHE_VERSION, "e1", StartTime, 1), "version"))}
    \cup {ObjectFile([Entry(year, CACHE_VERSION, Null, StartTime, 1)
                         EXCEPT !.data = DamagedData(year, change)]) :
             change \in {"lacks", "adds"}}
    \cup {ObjectFile(Entry(year, CACHE_VERSION, e, StartTime, r)) :
             e \in {Null, "", "e1"}, r \in Revisions}
    \cup {ObjectFile(Pop(Entry(year, CACHE_VERSION, e, StartTime, 1), "checked_at")) :
             e \in {Null, "e1"}}
    \cup {ObjectFile([Entry(year, CACHE_VERSION, "e1", StartTime, 2)
                         EXCEPT !.data.summary.wards_processed_percent = NoneV])}

(* At most one cache file exists at the start; the calls create the rest. *)
Init ==
    /\ now = StartTime
    /\ calls = 0
    /\ last = NoCall
    /\ \E p \in Paths : \E f \in InitFiles(p[1]) :
          disk = [q \in Paths |-> IF q = p THEN f ELSE AbsentFile]
    /\ instance = NoScraper
    /\ upstream = NoWeb

(* The calls of the dashboard: load_election_dataset(PRIMARY_YEAR, fallback) *)
(* with the fallback year, the same year or None, and                      *)
(* load_reference_dataset(FALLBACK_YEAR), which passes None.               *)
Calls ==
    {<<PRIMARY_YEAR, FALLBACK_YEAR>>, <<PRIMARY_YEAR, PRIMARY_YEAR>>,
     <<PRIMARY_YEAR, NoNum>>, <<FALLBACK_YEAR, NoNum>>}

Next ==
    \E c \in Calls, langIn \in LangInputs, wait \in Waits :
        GatherElectionData(c[1], c[2], langIn, wait)

Spec == Init /\ [][Next]_vars

(* Election-night polling: the dashboard asks for the primary year again   *)
(* and again (load_reference_dataset style, without fallback).             *)
Poll(wait) ==
    /\ calls < MaxPolls
    /\ GatherCall(PRIMARY_YEAR, NoNum, "EN", wait)

PollNext == \E wait \in Waits : Poll(wait)

PollingSpec == Init /\ [][PollNext]_vars

----------------------------------------------------------------------------
(* The functions called one at a time: the normalizers, _fetch_json and    *)
(* _store_cache followed by _load_cache, each on inputs of a bounded set.  *)
(* `last` keeps the call: its inputs, how they were made, and its outcome. *)

(* A number as the feed prints it: an optional "-", a leading group and    *)
(* groups of three digits, set apart by sep, inside padding.               *)
RECURSIVE Grouped(_, _)
Grouped(tail, sep) ==
    IF tail = <<>> THEN <<>>
    ELSE sep \o PadChars(tail[1], 3) \o Grouped(Tail(tail), sep)

DecoratedNumber(neg, lead, tail, sep, pad) ==
    pad \o (IF neg THEN <<"-">> ELSE <<>>) \o NatChars(lead) \o Grouped(tail, sep) \o pad

GroupSeparators == {<<>>, <<" ">>, <<"nbsp">>, <<".">>, <<",">>}

NumberForms ==
    {[kind |-> "decorated", neg |-> neg, lead |-> lead, tail |-> tail, sep |-> sep,
      pad |-> pad] :
        neg \in BOOLEAN, lead \in {0, 7, 12}, tail \in {<<>>, <<5>>, <<234, 0>>},
        sep \in GroupSeparators, pad \in {<<>>, <<" ">>}}

OtherForm == [kind |-> "other"]

NumberTexts ==
    {<<>>, <<" ">>, <<"nbsp">>, <<"-">>, <<" ", "-", " ">>, <<"-", "-">>, <<"a", "-">>, <<"1", "-", "2">>, <<"1", "2", "-">>, <<"5", "-">>,
     <<"a", "b", "c">>, <<"n", "/", "a">>, <<"5", "7", " ", "%">>}

NumericValues ==
    {NoneV, BoolV(TRUE), BoolV(FALSE)}
    \cup {IntV(n) : n \in {-3, 0, 5, 1234}}
    \cup {FloatV(m, 1) : m \in {-30, -25, -5, 0, 4, 5, 15, 25, 26, 30, 35}}

NumberInputs ==
    {[value |-> StrV(DecoratedNumber(f.neg, f.lead, f.tail, f.sep, f.pad)), form |-> f] :
        f \in NumberForms}
    \cup {[value |-> StrV(t), form |-> OtherForm] : t \in NumberTexts}
    \cup {[value |-> v, form |-> OtherForm] : v \in NumericValues}

(* A percentage as the feed prints it: text without digits, an optional    *)
(* "-", the whole part, an optional separator and fraction (of `width`     *)
(* digits), and the rest.                                                  *)
DecoratedPercent(f) ==
    f.pre \o (IF f.neg THEN <<"-">> ELSE <<>>) \o NatChars(f.whole)
    \o (IF f.width = 0 THEN <<>> ELSE <<f.sep>> \o PadChars(f.frac, f.width))
    \o f.post

PercentForms ==
    {[kind |-> "decorated", pre |-> pre, neg |-> neg, whole |-> whole, sep |-> fr[1],
      frac |-> fr[2], width |-> fr[3], post |-> post] :
        pre \in {<<>>, <<"c", "a", " ">>, <<"-", " ">>}, neg \in BOOLEAN, whole \in {0, 12, 100},
        fr \in {<<".", 0, 0>>, <<".", 5, 1>>, <<",", 5, 1>>, <<",", 5, 2>>,
                <<".", 25, 2>>},
        post \in {<<>>, <<" ", "%">>, <<" ", "7", ",", "5">>, <<"-", "3">>, <<".", "x">>}}

PercentTexts ==
    {<<>>, <<"a", "b", "c">>, <<"-">>, <<"%">>, <<"1", ".", "2", ".", "3">>, <<"1", ",", "2", "3", "4", ".", "5">>, <<".", "5">>, <<"-", "-", "3">>}

PercentInputs ==
    {[value |-> StrV(DecoratedPercent(f)), form |-> f] : f \in PercentForms}
    \cup {[value |-> StrV(t), form |-> OtherForm] : t \in PercentTexts}
    \cup {[value |-> v, form |-> OtherForm] : v \in NumericValues}

FetchProbes ==
    CelkemResponses \cup MapaResponses
    \cup {Response(200, Null, sh, 1) : sh \in {"Marker", "MARKER", "nondict"}}
    \cup {Response(st, Null, "none", 1) : st \in {304, 500}}
    \cup {Response(503, Null, "problem", 1)}

----------------------------------------------------------------------------
(* _extract_js_literal.  A script is text; an index counts from 1 and 0    *)
(* stands for the -1 of str.find.                                          *)

(* text.find(needle, from) *)
FindFrom(text, needle, from) ==
    LET hits == {i \in from..(Len(text) - Len(needle) + 1) :
                    SubSeq(text, i, i + Len(needle) - 1) = needle}
    IN  IF hits = {} THEN 0 ELSE CHOOSE i \in hits : \A j \in hits : i <= j

ClosingOf(opening) == IF opening = "[" THEN "]" ELSE "}"

(* the variables of the loop; end is the index at which it returned *)
ScanStart == [depth |-> 0, in_string |-> FALSE, escape |-> FALSE, end |-> 0]

(* one pass of the loop (scraper.py 72-85) *)
ScanChar(st, char, index, opening) ==
    IF char = "\\" /\ ~st.escape THEN [st EXCEPT !.escape = TRUE]
    ELSE LET in_string == IF char \in {"'", "\""} /\ ~st.escape
                          THEN ~st.in_string ELSE st.in_string
         IN  IF in_string THEN [st EXCEPT !.in_string = TRUE, !.escape = FALSE]
             ELSE IF char = opening
             THEN [st EXCEPT !.in_string = FALSE, !.escape = FALSE, !.depth = @ + 1]
             ELSE IF char = ClosingOf(opening)
             THEN IF st.depth - 1 = 0
                  THEN [st EXCEPT !.in_string = FALSE, !.depth = 0, !.end = index]
                  ELSE [st EXCEPT !.in_string = FALSE, !.escape = FALSE, !.depth = @ - 1]
             ELSE [st EXCEPT !.in_string = FALSE, !.escape = FALSE]

(* the loop from start up to index n *)
RECURSIVE ScanTo(_, _, _, _)
ScanTo(script, start, n, opening) ==
    IF n < start THEN ScanStart
    ELSE Bind(ScanTo(script, start, n - 1, opening), LAMBDA st :
            IF st.end # 0 THEN st ELSE ScanChar(st, script[n], n, opening))

(* _extract_js_literal *)
ExtractJsLiteral(script, marker, opening) ==
    Bind(FindFrom(script, marker, 1), LAMBDA found :
        IF found = 0 THEN Raises("ValueError")
        ELSE Bind(FindFrom(script, <<opening>>, found), LAMBDA start :
                IF start = 0 THEN Raises("ValueError")
                ELSE Bind(ScanTo(script, start, Len(script), opening), LAMBDA st :
                             IF st.end # 0 THEN Returns(StrV(SubSeq(script, start, st.end)))
                             ELSE Raises("ValueError"))))

(* The scripts handed to it: the marker "m=" or none, then every text of   *)
(* up to MaxScript characters of brackets, quotes of both kinds, a         *)
(* backslash and a letter; and scripts as the site writes them.            *)
ScriptChars == {"[", "]", "\"", "'", "\\", "x"}

Marker == <<"m", "=">>

ScriptBodies == UNION {[1..n -> ScriptChars] : n \in 0..MaxScript}

WrittenScripts ==
    {<<"[", "x", "]", "m", "=", "[", "y", "]", ";", "[", "z", "]">>,
     <<"m", "=", "{", "\"", "a", "\"", ":", "[", "1", "]", ",", "b", ":", "'", "}", "'", "}", ";">>,
     <<"m", "=", "[", "\"", "i", "t", "'", "s", " ", "]", "\"", "]", ";">>,
     <<"m", "=", "[", "'", "a", "\\", "'", "]", "'", ",", "[", "2", "]", "]", ";">>,
     <<"m", "=", "[", "\"", "\\", "\\", "\"", ",", "\"", "]", "\"", "]", ";">>,
     <<"m", "=", "{", "a", ":", "{", "b", ":", "1", "}", ",", "c", ":", "[", "}", "]">>,
     <<"m", "=", "{", "a", ":", "1", "}", ";">>}

ScriptInputs ==
    {[script |-> prefix \o body, opening |-> "["] :
        prefix \in {<<>>, Marker}, body \in ScriptBodies}
    \cup {[script |-> script, opening |-> opening] :
             script \in WrittenScripts, opening \in {"[", "{"}}

----------------------------------------------------------------------------
(* The datasets a caller can hand to _store_cache: what fetch_all built,   *)
(* as it is or as the policy and the orchestrator returned it (annotated   *)
(* and stamped), and a dataset of a year without results.                  *)
FetchedDataset(year, rev) ==
    FetchDataset(year, "EN", NoResponse, FALSE, Response(200, EtagOf(rev), "ok", rev),
                 Response(200, Null, "ok", 1), StartTime).dataset

StoreDatasets ==
    LET fetched == {FetchedDataset(PRIMARY_YEAR, rev) : rev \in Revisions}
        returned == {StampPrimary(AnnotateCacheMetadata(d, PRIMARY_YEAR, "EN", hit, FALSE,
                                      [etag |-> "e1", checked_at |-> StartTime]),
                                  PRIMARY_YEAR) : d \in fetched, hit \in BOOLEAN}
        empty == {[d EXCEPT !.parties = <<>>, !.seats = <<>>, !.regions = <<>>] :
                     d \in fetched}
    IN  fetched \cup returned \cup empty

StoreEtags == {Null, "", "e1"}

(* checked_at: None, the epoch, and two timestamps *)
StoreTimes == {NoNum, 0, StartTime - 30, StartTime}

UnitInit ==
    /\ now = StartTime
    /\ calls = 0
    /\ last = NoCall
    /\ disk = [q \in Paths |-> AbsentFile]
    /\ instance = NoScraper
    /\ upstream = NoWeb

NormalizeNumberCall(input) ==
    /\ calls < MaxProbes
    /\ last' = [op |-> "normalize_number", value |-> input.value, form |-> input.form,
                out |-> NormalizeNumber(input.value)]
    /\ calls' = calls + 1
    /\ UNCHANGED <<now, disk, instance, upstream>>

NormalizePercentageCall(input) ==
    /\ calls < MaxProbes
    /\ last' = [op |-> "normalize_percentage", value |-> input.value,
                form |-> input.form, out |-> NormalizePercentage(input.value)]
    /\ calls' = calls + 1
    /\ UNCHANGED <<now, disk, instance, upstream>>

FetchJsonCall(year, resource, resp) ==
    /\ calls < MaxProbes
    /\ last' = [op |-> "fetch_json", year |-> year, resource |-> resource,
                resp |-> resp, out |-> FetchJson(year, resource, resp)]
    /\ calls' = calls + 1
    /\ now' = now + RequestSeconds
    /\ UNCHANGED <<disk, instance, upstream>>

StoreThenLoad(year, dataset, etag, checked_at) ==
    /\ calls < MaxProbes
    /\ LET stored == StoreCache(disk, year, "EN", dataset, etag, checked_at, now)
       IN  /\ disk' = stored
           /\ last' = [op |-> "store_load", year |-> year, dataset |-> dataset,
                       etag |-> etag, checked_at |-> checked_at, at |-> now,
                       loaded |-> LoadCache(stored, year, "EN")]
    /\ calls' = calls + 1
    /\ UNCHANGED <<now, instance, upstream>>

UnitNext ==
    \/ \E input \in NumberInputs : NormalizeNumberCall(input)
    \/ \E input \in PercentInputs : NormalizePercentageCall(input)
    \/ \E year \in Years, resource \in {PRIMARY_RESOURCE, REGION_RESOURCE},
          resp \in FetchProbes : FetchJsonCall(year, resource, resp)
    \/ \E dataset \in StoreDatasets, etag \in StoreEtags, checked_at \in StoreTimes :
          StoreThenLoad(PRIMARY_YEAR, dataset, etag, checked_at)

UnitSpec == UnitInit /\ [][UnitNext]_vars

----------------------------------------------------------------------------
(* The upstream publishes one script, and _extract_js_literal is applied   *)
(* to it.                                                                  *)
ScriptInit ==
    /\ now = StartTime
    /\ calls = 0
    /\ last = NoCall
    /\ disk = [q \in Paths |-> AbsentFile]
    /\ instance = NoScraper
    /\ upstream \in ScriptInputs

ExtractJsLiteralCall ==
    /\ calls < MaxProbes
    /\ last' = [op |-> "extract_js_literal", script |-> upstream.script,
                marker |-> Marker, opening |-> upstream.opening,
                out |-> ExtractJsLiteral(upstream.script, Marker, upstream.opening)]
    /\ calls' = calls + 1
    /\ UNCHANGED <<now, disk, instance, upstream>>

ScriptNext == ExtractJsLiteralCall

ScriptSpec == ScriptInit /\ [][ScriptNext]_vars

----------------------------------------------------------------------------
(* One ElectionScraper whose public methods are called in any order       *)
(* against an upstream that publishes one of the feeds below.              *)

(* the summary row with the cells of envelopes_returned and valid_votes,   *)
(* cut to len cells                                                        *)
SummaryRow(returned, valid, len) ==
    SubSeq(<<IntV(200), IntV(114), FloatV(57, 0), StrV(<<"1", "2", "3", "4">>), IntV(500), StrV(<<"1", "2", ",", "5", " ", "%">>),
             NoneV, NoneV, returned, valid, FloatV(99, 0)>>, 1, len)

SummaryRows ==
    {SummaryRow(c[1], c[2], 11) :
        c \in {<<IntV(100), IntV(99)>>, <<IntV(0), IntV(0)>>, <<IntV(3), IntV(1)>>,
               <<IntV(99), IntV(100)>>, <<NoneV, IntV(99)>>, <<IntV(100), NoneV>>,
               <<StrV(<<"-">>), StrV(<<>>)>>, <<StrV(<<"1", "nbsp", "2", "3", "4">>), StrV(<<"1", " ", "0", "0", "0">>)>>}}
    \cup {SummaryRow(IntV(100), IntV(99), len) : len \in {8, 9, 10}}

ResultRow(number, name, votes, share, mandates) == <<number, name, votes, share, mandates>>

SPOLU == ResultRow(IntV(1), "SPOLU", IntV(30), FloatV(30, 0), IntV(3))
ANO == ResultRow(IntV(2), "ANO", IntV(40), FloatV(40, 0), IntV(4))
STAN == ResultRow(IntV(3), "STAN", StrV(<<"3", "0">>), StrV(<<"1", "2", ",", "5", " ", "%">>), IntV(0))
Repeated == ResultRow(IntV(1), "SPOLU (2)", IntV(10), FloatV(10, 0), IntV(5))
Shortened == SubSeq(ResultRow(IntV(4), "KSCM", IntV(5), FloatV(5, 0), IntV(0)), 1, 4)
Unnumbered == ResultRow(NoneV, "Total", NoneV, NoneV, StrV(<<"7">>))

(* the result rows in every order, rows that repeat a number, rows that    *)
(* are cut short or carry no number, no rows                               *)
ResultOrders ==
    {<<a, b, c>> : a, b, c \in {SPOLU, ANO, STAN}}
    \cup {<<SPOLU, Repeated>>, <<Repeated, ANO, SPOLU>>, <<Shortened, Unnumbered, ANO>>,
          <<Unnumbered>>, <<>>}

CelkemFeeds ==
    {[prehled |-> row, vysledky |-> <<SPOLU, ANO>>] : row \in SummaryRows}
    \cup {[prehled |-> SummaryRow(IntV(100), IntV(99), 11), vysledky |-> rows] :
             rows \in ResultOrders}
    \cup {[prehled |-> SummaryRow(IntV(100), IntV(99), 11)]}

Praha == [kstrana |-> IntV(2), kstranaZkratka |-> "ANO 2011", hlasu |-> IntV(7),
          krajNazev |-> "Praha", procHlasu |-> StrV(<<"3", "5", ",", "5">>), kstranaBarva |-> "261060"]
Brno == [kstrana |-> StrV(<<"1">>), kstranaZkratka |-> "SPOLU", hlasu |-> StrV(<<"1", " ", "2", "3", "4">>),
         krajNazev |-> "Jihomoravsky", kstranaBarva |-> ""]
Abroad == [kstrana |-> IntV(9), kstranaZkratka |-> Null, krajNazev |-> "Zahranici"]

(* the regions under their keys, in document order: keys of one region id, *)
(* keys that are no numbers, ids outside 1..14, no regions                 *)
MapaFeeds ==
    {[kraje |-> <<Region(<<"2">>, Brno), Region(<<"1">>, Praha)>>],
     [kraje |-> <<Region(<<"1">>, Praha), Region(<<"0", "1">>, Brno)>>],
     [kraje |-> <<Region(<<"x">>, Praha), Region(<<"1", "5">>, Brno), Region(<<"0">>, Abroad)>>],
     [kraje |-> <<Region(<<"-", "3">>, Abroad), Region(<<" ", "1", "4", " ">>, Praha)>>],
     [kraje |-> <<>>],
     EmptyDict}

Ok == Response(200, Null, "ok", 1)

Feeds ==
    {(PRIMARY_RESOURCE :> Served(Ok, c)) @@ (REGION_RESOURCE :> Served(Ok, m)) :
        c \in CelkemFeeds, m \in MapaFeeds}
    \cup {Upstream(rc, rm) : rc \in {Ok, Response(404, Null, "none", 1)},
                             rm \in {Ok, NoResponse}}

ScraperInit ==
    /\ now = StartTime
    /\ calls = 0
    /\ last = NoCall
    /\ disk = [q \in Paths |-> AbsentFile]
    /\ instance = ElectionScraper(PRIMARY_YEAR, "EN")
    /\ upstream \in Feeds

(* what a method call on the instance leaves behind *)
MethodReturn(op, out) ==
    [last |-> [op |-> op, before |-> instance, exc |-> out.exc, ret |-> out.ret],
     instance |-> out.self,
     now |-> now + RequestSeconds * (Len(out.self.reqs) - Len(instance.reqs))]

FetchSummaryCall ==
    /\ calls < MaxFetches
    /\ \E r \in {MethodReturn("fetch_summary", FetchSummary(instance, upstream))} :
          last' = r.last /\ instance' = r.instance /\ now' = r.now
    /\ calls' = calls + 1
    /\ UNCHANGED <<disk, upstream>>

FetchPartyResultsCall ==
    /\ calls < MaxFetches
    /\ \E r \in {MethodReturn("fetch_party_results",
                               FetchPartyResults(instance, upstream))} :
          last' = r.last /\ instance' = r.instance /\ now' = r.now
    /\ calls' = calls + 1
    /\ UNCHANGED <<disk, upstream>>

FetchSeatAllocationCall ==
    /\ calls < MaxFetches
    /\ \E r \in {MethodReturn("fetch_seat_allocation",
                               FetchSeatAllocation(instance, upstream))} :
          last' = r.last /\ instance' = r.instance /\ now' = r.now
    /\ calls' = calls + 1
    /\ UNCHANGED <<disk, upstream>>

FetchRegionLeadersCall ==
    /\ calls < MaxFetches
    /\ \E r \in {MethodReturn("fetch_region_leaders",
                               FetchRegionLeaders(instance, upstream))} :
          last' = r.last /\ instance' = r.instance /\ now' = r.now
    /\ calls' = calls + 1
    /\ UNCHANGED <<disk, upstream>>

(* fetch_all returns the dataset *)
FetchAllCall ==
    /\ calls < MaxFetches
    /\ \E out \in {FetchAll(instance, upstream, now)} :
          \E r \in {MethodReturn("fetch_all", [exc |-> out.exc, ret |-> out.dataset,
                                                self |-> out.self])} :
             last' = r.last /\ instance' = r.instance /\ now' = r.now
    /\ calls' = calls + 1
    /\ UNCHANGED <<disk, upstream>>

ScraperNext ==
    \/ FetchSummaryCall
    \/ FetchPartyResultsCall
    \/ FetchSeatAllocationCall
    \/ FetchRegionLeadersCall
    \/ FetchAllCall

ScraperSpec == ScraperInit /\ [][ScraperNext]_vars

----------------------------------------------------------------------------
(* _store_cache writes the file of the primary year while _load_cache      *)
(* reads it.  open("w") empties the file, the text reaches it in pieces    *)
(* (where a piece ends depends on the buffers and on what was written      *)
(* before: any count of bytes up to BufferBytes), close writes the rest.   *)
(* last records the step that ran last.                                    *)
WrittenPath == CachePath(PRIMARY_YEAR, "EN")

WriterInit ==
    /\ now = StartTime
    /\ calls = 0
    /\ last = NoCall
    /\ \E f \in {AbsentFile,
                  ObjectFile(Entry(PRIMARY_YEAR, CACHE_VERSION, "e1", StartTime - 30, 1))} :
          disk = [q \in Paths |-> IF q = WrittenPath THEN f ELSE AbsentFile]
    /\ instance = NoScraper
    /\ upstream = NoWeb

StoreCacheOpen(rev, etag) ==
    /\ disk[WrittenPath].kind # "partial"
    /\ disk' = [disk EXCEPT ![WrittenPath] =
                   PartialFile(StoreCache(disk, PRIMARY_YEAR, "EN",
                                          FetchedDataset(PRIMARY_YEAR, rev), etag, now,
                                          now)[WrittenPath].payload, 0)]
    /\ last' = [op |-> "store_cache", step |-> "open"]
    /\ UNCHANGED <<now, calls, instance, upstream>>

StoreCacheWrite(n) ==
    /\ disk[WrittenPath].kind = "partial"
    /\ disk[WrittenPath].written + n < Len(FileBytes(disk[WrittenPath].payload))
    /\ disk' = [disk EXCEPT ![WrittenPath].written = @ + n]
    /\ last' = [op |-> "store_cache", step |-> "write"]
    /\ UNCHANGED <<now, calls, instance, upstream>>

StoreCacheClose ==
    /\ disk[WrittenPath].kind = "partial"
    /\ disk' = [disk EXCEPT ![WrittenPath] = ObjectFile(disk[WrittenPath].payload)]
    /\ last' = [op |-> "store_cache", step |-> "close"]
    /\ UNCHANGED <<now, calls, instance, upstream>>

LoadCacheCall ==
    /\ calls < MaxProbes
    /\ last' = [op |-> "load_cache", file |-> disk[WrittenPath],
                out |-> LoadCache(disk, PRIMARY_YEAR, "EN")]
    /\ calls' = calls + 1
    /\ UNCHANGED <<now, disk, instance, upstream>>

WriterNext ==
    \/ \E rev \in Revisions, etag \in {Null, "e1"} : StoreCacheOpen(rev, etag)
    \/ \E n \in 1..BufferBytes : StoreCacheWrite(n)
    \/ StoreCacheClose
    \/ LoadCacheCall

WriterSpec == WriterInit /\ [][WriterNext]_vars

----------------------------------------------------------------------------
(* Reading the record of the last call *)

Called == last.op = "gather"

Returned == Called /\ last.exc = NoExc

RunIds == DOMAIN last.runs

IsLastRun(i) == i = Len(last.runs)

(* the clock when run i called the policy *)
StartOf(i) == IF i = 1 THEN last.at ELSE last.runs[i - 1].ended

KeyOf(i) == CachePath(last.runs[i].year, last.lang)

(* the cache file of run i's key when the call began, and what it holds *)
FileBefore(i) == last.before[KeyOf(i)]

EtagBefore(i) == Get(FileBefore(i).payload, "etag", Null)

PercentBefore(i) ==
    Get(Get(Get(FileBefore(i).payload, "data", EmptyDict), "summary", EmptyDict),
        "wards_processed_percent", NoneV)

AgeBefore(i) == StartOf(i) - Get(FileBefore(i).payload, "checked_at", 0)

IntervalBefore(i) ==
    IF IsNumberAtLeast(PercentBefore(i), 100) THEN 3600 ELSE 60

StaleBefore(i) == AgeBefore(i) >= IntervalBefore(i)

NoEntryBefore(i) ==
    \/ FileBefore(i).kind \in {"absent", "garbage"}
    \/ /\ FileBefore(i).kind = "object"
       /\ Get(FileBefore(i).payload, "version", NoNum) # 1

CachedBefore(i) == LoadCache(last.before, last.runs[i].year, last.lang).entry

StoredNow(i) == LoadCache(disk, last.runs[i].year, last.lang)

(* a returned dataset without what the policy and the orchestrator add *)
Unannotated(dataset) ==
    [dataset EXCEPT !.metadata =
        Pop(Pop(Pop(Pop(@, "cache"), "effective_year"), "requested_year"),
            "fallback_used")]

Marked(hit, revalidated) ==
    /\ Returned
    /\ "cache" \in DOMAIN last.dataset.metadata
    /\ last.dataset.metadata.cache.hit = hit
    /\ last.dataset.metadata.cache.revalidated = revalidated

(* the content of the returned dataset is what the data answers carried *)
ReflectsAnswers(celkem, mapa) ==
    LET fresh == FetchAll(ElectionScraper(last.dataset.metadata.year, "EN"),
                          Upstream(Response(200, celkem.etag, "ok", celkem.rev),
                                   Response(200, mapa.etag, "ok", mapa.rev)), 0).dataset
    IN  /\ last.dataset.summary = fresh.summary
        /\ last.dataset.parties = fresh.parties
        /\ last.dataset.seats = fresh.seats
        /\ last.dataset.regions = fresh.regions

DataRequest(q, year, resource) ==
    q.year = year /\ q.resource = resource /\ q.if_none_match = Null

StaleWithEtag(i) ==
    last.runs[i].found /\ StaleBefore(i) /\ Truthy(EtagBefore(i))

----------------------------------------------------------------------------
(* C1: a policy run that finds a cache entry that is not stale issues no   *)
(* request, returns the cached data verbatim marked {hit: true,            *)
(* revalidated: false}, and leaves the cache file as it was.               *)
C1_FreshEntryServedWithoutNetwork ==
    \A i \in RunIds :
        (last.runs[i].found /\ ~StaleBefore(i)) =>
            /\ last.runs[i].reqs = <<>>
            /\ last.runs[i].exc = NoExc
            /\ IsLastRun(i)
            /\ Marked(TRUE, FALSE)
            /\ Unannotated(last.dataset) = CachedBefore(i).data
            /\ disk = last.before
            /\ now = StartOf(i)

(* the spec's example: checked 30 s ago, 57 % of the wards processed *)
C1_Witness ==
    \E i \in RunIds :
        /\ last.runs[i].found
        /\ AgeBefore(i) = 30
        /\ PercentBefore(i) = FloatV(57, 0)
        /\ Returned

(* C2: an entry is stale exactly when now - checked_at >= interval, with   *)
(* interval 3600 s when wards_processed_percent is a number >= 100 and     *)
(* 60 s otherwise; a missing checked_at counts as 0.                       *)
C2_StaleExactlyAtInterval ==
    \A i \in RunIds :
        last.runs[i].found => (last.runs[i].stale <=> StaleBefore(i))

(* the boundary of the final interval: checked exactly 3600 s ago *)
C2_Witness ==
    \E i \in RunIds :
        /\ last.runs[i].found
        /\ PercentBefore(i) = FloatV(100, 0)
        /\ AgeBefore(i) = 3600
        /\ last.runs[i].stale

(* C3: with no usable entry (absent, malformed JSON, other version), or a  *)
(* stale entry without ETag, the run makes no conditional request, fetches *)
(* both data resources, stores the fetched dataset as the new entry and    *)
(* marks {hit: false, revalidated: false}.                                 *)
C3_FullFetchWithoutEntryOrEtag ==
    \A i \in RunIds :
        LET r == last.runs[i]
        IN  (\/ NoEntryBefore(i)
             \/ r.found /\ StaleBefore(i) /\ ~Truthy(EtagBefore(i))) =>
                /\ r.reqs # <<>>
                /\ DataRequest(r.reqs[1], r.year, PRIMARY_RESOURCE)
                /\ \A k \in DOMAIN r.reqs : r.reqs[k].if_none_match = Null
                /\ r.exc = NoExc =>
                     /\ IsLastRun(i)
                     /\ Len(r.reqs) = 2
                     /\ DataRequest(r.reqs[2], r.year, REGION_RESOURCE)
                     /\ Marked(FALSE, FALSE)
                     /\ ReflectsAnswers(r.reqs[1], r.reqs[2])
                     /\ StoredNow(i).found
                     /\ StoredNow(i).entry.data = Unannotated(last.dataset)
                     /\ StoredNow(i).entry.checked_at = now

(* a stale entry without ETag was refetched and overwritten *)
C3_Witness ==
    \E i \in RunIds :
        /\ last.runs[i].found
        /\ StaleBefore(i)
        /\ EtagBefore(i) = Null
        /\ Returned
        /\ disk[KeyOf(i)] # FileBefore(i)

(* C4: a stale entry with an ETag is revalidated by one conditional GET of *)
(* the primary resource carrying If-None-Match = etag; on 304 nothing else *)
(* is requested, the cached data is returned marked {hit: true,            *)
(* revalidated: true} and the entry is stored again with the same etag and *)
(* checked_at = the current time.                                          *)
C4_NotModifiedTouchesEntry ==
    \A i \in RunIds :
        LET r == last.runs[i]
        IN  StaleWithEtag(i) =>
                /\ r.reqs # <<>>
                /\ r.reqs[1].year = r.year
                /\ r.reqs[1].resource = PrimaryResourceOf(last.lang)
                /\ r.reqs[1].if_none_match = EtagBefore(i)
                /\ \A k \in DOMAIN r.reqs : k > 1 => r.reqs[k].if_none_match = Null
                /\ r.reqs[1].status = 304 =>
                     /\ Len(r.reqs) = 1
                     /\ IsLastRun(i)
                     /\ Marked(TRUE, TRUE)
                     /\ Unannotated(last.dataset) = CachedBefore(i).data
                     /\ StoredNow(i).found
                     /\ StoredNow(i).entry.data = CachedBefore(i).data
                     /\ StoredNow(i).entry.etag = EtagBefore(i)
                     /\ StoredNow(i).entry.checked_at = now
                     /\ now > StartOf(i)

C4_Witness ==
    \E i \in RunIds :
        /\ StaleWithEtag(i)
        /\ last.runs[i].reqs[1].status = 304
        /\ Returned
        /\ "checked_at" \in DOMAIN FileBefore(i).payload
        /\ disk[KeyOf(i)].payload.checked_at > FileBefore(i).payload.checked_at

(* C5: when the conditional GET answers 200, both data resources are       *)
(* fetched, the returned dataset is the newly fetched content, the entry   *)
(* is overwritten with it and with the ETag of the 200 answer, and the     *)
(* dataset is marked {hit: false, revalidated: true}.                      *)
C5_ModifiedRefetchesAndStores ==
    \A i \in RunIds :
        LET r == last.runs[i]
        IN  (StaleWithEtag(i) /\ r.reqs # <<>> /\ r.reqs[1].status = 200) =>
                /\ Len(r.reqs) >= 2
                /\ DataRequest(r.reqs[2], r.year, PRIMARY_RESOURCE)
                /\ r.exc = NoExc =>
                     /\ IsLastRun(i)
                     /\ Len(r.reqs) = 3
                     /\ DataRequest(r.reqs[3], r.year, REGION_RESOURCE)
                     /\ Marked(FALSE, TRUE)
                     /\ ReflectsAnswers(r.reqs[2], r.reqs[3])
                     /\ StoredNow(i).found
                     /\ StoredNow(i).entry.data = Unannotated(last.dataset)
                     /\ StoredNow(i).entry.etag = r.reqs[1].etag
                     /\ StoredNow(i).entry.checked_at = now

(* the cached count was partial, the refetched one is final, under a new   *)
(* ETag                                                                    *)
C5_Witness ==
    \E i \in RunIds :
        /\ StaleWithEtag(i)
        /\ last.runs[i].reqs[1].status = 200
        /\ Returned
        /\ PercentBefore(i) = FloatV(57, 0)
        /\ last.dataset.summary.wards_processed_percent = FloatV(100, 0)
        /\ EtagBefore(i) = "e1"
        /\ disk[KeyOf(i)].payload.etag = "e2"

(* C6: when the conditional GET answers another status or the transport    *)
(* fails, the run raises ElectionDataUnavailable for that year and the     *)
(* primary resource (with the status, if there was one), requests nothing  *)
(* more, and the call does not return that year's cached dataset.          *)
C6_FailedRevalidationRaises ==
    \A i \in RunIds :
        LET r == last.runs[i]
        IN  (StaleWithEtag(i) /\ r.reqs # <<>> /\ r.reqs[1].status \notin {200, 304}) =>
                /\ Len(r.reqs) = 1
                /\ r.exc = ElectionDataUnavailable(
                               r.year, PrimaryResourceOf(last.lang),
                               IF r.reqs[1].status = TransportError
                               THEN NoNum ELSE r.reqs[1].status,
                               Null)
                /\ disk[KeyOf(i)] = FileBefore(i)
                /\ Returned => last.dataset.metadata.year # r.year

C6_Witness ==
    \E i \in RunIds :
        /\ StaleWithEtag(i)
        /\ last.runs[i].reqs[1].status = 500
        /\ last.exc.kind = "ElectionDataUnavailable"
        /\ last.exc.status = 500

(* C7: when the run for year raises ElectionDataUnavailable and            *)
(* fallback_year is set and differs from year, the policy runs once for    *)
(* fallback_year; if that succeeds the dataset is stamped fallback_used =  *)
(* true, effective_year = fallback_year, requested_year = year.            *)
C7_FallbackYearUsed ==
    (/\ Called
     /\ last.runs[1].exc.kind = "ElectionDataUnavailable"
     /\ last.fallback # NoNum
     /\ last.fallback # last.year) =>
        /\ Len(last.runs) = 2
        /\ last.runs[1].year = last.year
        /\ last.runs[2].year = last.fallback
        /\ StartOf(2) >= last.at
        /\ last.runs[2].exc = NoExc =>
             /\ Returned
             /\ last.dataset.metadata.year = last.fallback
             /\ last.dataset.metadata.fallback_used = TRUE
             /\ last.dataset.metadata.effective_year = last.fallback
             /\ last.dataset.metadata.requested_year = last.year

(* the spec's example: 2025 answers 404, 2021 is returned *)
C7_Witness ==
    /\ Returned
    /\ last.year = 2025
    /\ last.fallback = 2021
    /\ last.runs[1].exc.status = 404
    /\ last.dataset.metadata.effective_year = 2021
    /\ last.dataset.metadata.fallback_used = TRUE

(* C8: without a fallback year (None, or equal to year) the failure of the *)
(* first run propagates and no second run is made; a failure of the        *)
(* fallback run propagates; a call makes at most two runs.                 *)
C8_FailurePropagates ==
    Called =>
        /\ Len(last.runs) \in {1, 2}
        /\ last.runs[1].year = last.year
        /\ Len(last.runs) = 2 =>
             /\ last.runs[1].exc.kind = "ElectionDataUnavailable"
             /\ last.runs[2].year = last.fallback
             /\ last.fallback # last.year
        /\ (/\ last.runs[1].exc.kind = "ElectionDataUnavailable"
            /\ last.fallback \in {NoNum, last.year}) =>
                /\ Len(last.runs) = 1
                /\ last.exc = last.runs[1].exc
        /\ last.exc = last.runs[Len(last.runs)].exc

(* both years failed: the fallback's failure is what the caller sees *)
C8_Witness ==
    /\ Called
    /\ Len(last.runs) = 2
    /\ last.exc.kind = "ElectionDataUnavailable"
    /\ last.exc.year = last.fallback

(* C9: when the run for the requested year succeeds, the dataset is        *)
(* stamped effective_year = requested_year = year, fallback_used = false,  *)
(* and nothing is requested from, or written to, the fallback year.        *)
C9_PrimaryYearStamped ==
    (Called /\ last.runs[1].exc = NoExc) =>
        /\ Returned
        /\ Len(last.runs) = 1
        /\ last.dataset.metadata.effective_year = last.year
        /\ last.dataset.metadata.requested_year = last.year
        /\ last.dataset.metadata.fallback_used = FALSE
        /\ \A k \in DOMAIN last.runs[1].reqs : last.runs[1].reqs[k].year = last.year
        /\ \A p \in Paths : p # CachePath(last.year, last.lang) => disk[p] = last.before[p]

C9_Witness ==
    /\ Returned
    /\ Len(last.runs) = 1
    /\ last.fallback \notin {NoNum, last.year}
    /\ last.runs[1].reqs # <<>>
    /\ last.before[CachePath(last.fallback, last.lang)] # AbsentFile

(* C10: _load_cache never raises, whatever the cache file holds (absent,   *)
(* no JSON, JSON that is no object, wrong or missing version, records that *)
(* lack or add fields): it returns None or an entry, so no policy run ends *)
(* with an exception of _load_cache.                                       *)
C10_LoadCacheNeverRaises ==
    /\ \A p \in Paths : ~Raised(LoadCache(disk, p[1], Upper(p[2])))
    /\ \A i \in RunIds : last.runs[i].exc.kind \notin {"AttributeError", "TypeError"}

----------------------------------------------------------------------------
(* what a cache file persists of the annotation of the policy *)
PersistsAnnotation(file) ==
    /\ file.kind = "object"
    /\ "data" \in DOMAIN file.payload
    /\ "metadata" \in DOMAIN file.payload.data
    /\ "cache" \in DOMAIN file.payload.data.metadata

(* C11: no cache file ever holds a metadata.cache sub-object, also after a *)
(* 304 re-store of data loaded from the cache and after a fallback run;    *)
(* every dataset returned to the caller carries the annotation.            *)
C11_AnnotationNeverPersisted ==
    /\ \A p \in Paths : ~PersistsAnnotation(disk[p])
    /\ Returned => "cache" \in DOMAIN last.dataset.metadata

(* a fallback run re-stored, after a 304, the data it had loaded *)
C11_Witness ==
    /\ Returned
    /\ Len(last.runs) = 2
    /\ last.runs[2].reqs[1].status = 304
    /\ disk[KeyOf(2)] # FileBefore(2)
    /\ last.dataset.metadata.cache.revalidated

(* the requests of run i succeeded in writing: a 304 answer alone, or the  *)
(* two data resources answered 200 as the last two requests                *)
WroteEntry(i) ==
    LET r == last.runs[i]
        n == Len(r.reqs)
    IN  /\ r.exc = NoExc
        /\ n >= 1
        /\ \/ n = 1 /\ r.reqs[1].status = 304 /\ r.reqs[1].if_none_match # Null
           \/ /\ n >= 2
              /\ DataRequest(r.reqs[n - 1], r.year, PRIMARY_RESOURCE)
              /\ DataRequest(r.reqs[n], r.year, REGION_RESOURCE)
              /\ r.reqs[n - 1].status = 200 /\ r.reqs[n].status = 200

(* C13: a cache file changes only through a successful full fetch or a     *)
(* successful 304 revalidation of its own key and is never deleted; a run  *)
(* that fails leaves the file of its key as it was; a fallback run does    *)
(* not write the requested year's file.                                    *)
C13_EntryWrittenOnlyOnSuccess ==
    Called =>
        /\ \A p \in Paths :
              /\ disk[p].kind = "absent" => last.before[p].kind = "absent"
              /\ disk[p] # last.before[p] =>
                    \E i \in RunIds : KeyOf(i) = p /\ IsLastRun(i) /\ WroteEntry(i)
        /\ \A i \in RunIds :
              last.runs[i].exc # NoExc => disk[KeyOf(i)] = FileBefore(i)
        /\ Len(last.runs) = 2 => disk[KeyOf(1)] = FileBefore(1)

(* the requested year's entry failed to revalidate and stays; the fallback *)
(* year's entry is created                                                 *)
C13_Witness ==
    /\ Returned
    /\ Len(last.runs) = 2
    /\ FileBefore(1).kind = "object"
    /\ last.runs[1].found
    /\ disk[KeyOf(1)] = FileBefore(1)
    /\ FileBefore(2).kind = "absent"
    /\ disk[KeyOf(2)].kind = "object"

----------------------------------------------------------------------------
(* the refresh interval of the summary a call returned *)
IntervalOfReturned ==
    LET pct == Get(last.dataset.summary, "wards_processed_percent", NoneV)
    IN  IF IsNumberAtLeast(pct, 100) THEN 3600 ELSE 60

(* the last call succeeded through the network: full fetch, 304 or 200 *)
SucceededOnline ==
    /\ Returned
    /\ last.runs[Len(last.runs)].reqs # <<>>

(* C14: once a call for a key has succeeded through the network (full      *)
(* fetch, 304 revalidation or 200 refetch) at time t, a later call for the *)
(* key made less than the refresh interval of the stored summary after t   *)
(* (60 s below 100 % of the wards, 3600 s from 100 %) issues no request.   *)
C14_NoRequestWithinInterval ==
    [][(/\ SucceededOnline
        /\ last'.op = "gather"
        /\ last'.year = last.dataset.metadata.year
        /\ last'.at - now < IntervalOfReturned)
       => (/\ last'.runs[1].reqs = <<>>
           /\ last'.exc = NoExc
           /\ last'.dataset.summary = last.dataset.summary)]_vars

(* a second poll was served from an entry that a 304 answer had touched:   *)
(* its data was fetched before the polls began, its clock was reset by the *)
(* first poll                                                              *)
C14_Witness ==
    /\ calls = 2
    /\ Returned
    /\ last.runs[1].reqs = <<>>
    /\ FileBefore(1).payload.checked_at > StartTime
    /\ FileBefore(1).payload.data.metadata.fetched_at = StartTime

----------------------------------------------------------------------------
(* Reading the record of a single function call *)

StoredAndLoaded == last.op = "store_load"

(* a dataset without the annotation of the policy *)
WithoutCache(dataset) ==
    IF "metadata" \in DOMAIN dataset
    THEN [dataset EXCEPT !.metadata = Pop(@, "cache")]
    ELSE dataset

(* what the round trip keeps whatever checked_at is *)
RoundTripKeeps ==
    /\ last.loaded.exc = NoExc
    /\ last.loaded.found
    /\ last.loaded.entry.etag = last.etag
    /\ last.loaded.entry.data = WithoutCache(last.dataset)
    /\ \A k \in RecordLists : \A i \in DOMAIN last.loaded.entry.data[k] :
          last.loaded.entry.data[k][i].cls = ClassOf(k)

(* C12, as amended: _store_cache followed by _load_cache gives back the    *)
(* etag, the dataset without metadata.cache with its records rebuilt, and  *)
(* the checked_at that was passed when it is a non-zero timestamp; a       *)
(* checked_at of None or 0 is stored as the time of the write.             *)
C12_StoreLoadRoundTrip ==
    StoredAndLoaded =>
        /\ RoundTripKeeps
        /\ last.loaded.entry.checked_at =
              IF last.checked_at \in {NoNum, 0} THEN last.at ELSE last.checked_at

(* a returned (annotated, stamped) dataset with records of all three kinds *)
(* was stored under an earlier timestamp                                   *)
C12_Witness ==
    /\ StoredAndLoaded
    /\ last.checked_at = StartTime - 30
    /\ "cache" \in DOMAIN last.dataset.metadata
    /\ last.dataset.parties # <<>>
    /\ last.dataset.seats # <<>>
    /\ last.loaded.found
    /\ last.loaded.entry.data.regions[1].cls = "RegionLeader"
    /\ last.loaded.entry.checked_at = StartTime - 30

(* C12, as stated: for any dataset, etag and checked_at the loaded entry   *)
(* has that etag, that checked_at and the dataset without metadata.cache.  *)
C12_RoundTripAnyCheckedAt ==
    StoredAndLoaded =>
        /\ RoundTripKeeps
        /\ last.loaded.entry.checked_at = last.checked_at

FetchedJson == last.op = "fetch_json"

NotFoundShapes == {"marker", "Marker", "MARKER"}

UnavailableFor(exc, year, resource) ==
    /\ exc.kind = "ElectionDataUnavailable"
    /\ exc.year = year
    /\ exc.resource = resource

(* C15: _fetch_json raises ElectionDataUnavailable with the year and the   *)
(* resource when the status is not 200 (keeping the status) and when a 200 *)
(* body holds a not-found marker in any letter case; no payload is         *)
(* returned from such a response.                                          *)
C15_NotFoundIsUnavailable ==
    FetchedJson =>
        LET resp == last.resp
            out == last.out
        IN  /\ resp.status \notin {200, TransportError} =>
                 /\ UnavailableFor(out.exc, last.year, last.resource)
                 /\ out.exc.status = resp.status
                 /\ out.rev = 0
            /\ (resp.status = 200 /\ resp.shape \in NotFoundShapes) =>
                 /\ UnavailableFor(out.exc, last.year, last.resource)
                 /\ out.exc.status = 200
                 /\ out.rev = 0

(* the error page spelled in capitals *)
C15_Witness ==
    /\ FetchedJson
    /\ last.resp.status = 200
    /\ last.resp.shape = "MARKER"
    /\ last.out.exc.kind = "ElectionDataUnavailable"
    /\ last.out.exc.reason = "page not found"

(* C16: when a data resource answers 200 with a body of an unexpected      *)
(* shape (no JSON, no JSON object, summary row missing or short), the run  *)
(* raises ElectionDataUnavailable, and a call with a fallback year goes on *)
(* to the fallback year.                                                   *)
C16_ShapeFailureIsUnavailable ==
    \A i \in RunIds :
        LET r == last.runs[i]
            n == Len(r.reqs)
        IN  (/\ r.exc # NoExc
             /\ n >= 1
             /\ r.reqs[n].status = 200
             /\ r.reqs[n].if_none_match = Null) =>
                /\ r.exc.kind = "ElectionDataUnavailable"
                /\ (i = 1 /\ last.fallback \notin {NoNum, last.year}) =>
                       Len(last.runs) = 2

(* C17: a transport failure of the conditional GET raises                  *)
(* ElectionDataUnavailable; a transport failure of a data resource fetch   *)
(* raises another kind of error and the call makes no fallback run.        *)
C17_TransportFailureKinds ==
    \A i \in RunIds :
        LET r == last.runs[i]
            n == Len(r.reqs)
        IN  (n >= 1 /\ r.reqs[n].status = TransportError) =>
                IF r.reqs[n].if_none_match # Null
                THEN r.exc.kind = "ElectionDataUnavailable"
                ELSE /\ r.exc # NoExc
                     /\ r.exc.kind # "ElectionDataUnavailable"
                     /\ IsLastRun(i)

NormalizedNumber == last.op = "normalize_number"

NormalizedPercentage == last.op = "normalize_percentage"

HasDigit(text) == \E i \in DOMAIN text : text[i] \in Digits

RECURSIVE GroupsValue(_, _)
GroupsValue(lead, tail) ==
    IF tail = <<>> THEN lead
    ELSE GroupsValue(1000 * lead + tail[1], Tail(tail))

(* the integer a decorated number stands for *)
PlainValue(f) == IF f.neg THEN -GroupsValue(f.lead, f.tail) ELSE GroupsValue(f.lead, f.tail)

(* C18: on text normalize_number returns None for empty, whitespace-only   *)
(* or "-" input and for any text without digits, and otherwise the integer *)
(* of the digits and "-" of the text: a number with digit-group separators *)
(* gives the integer of its undecorated form, and normalizing that integer *)
(* again gives it back.                                                    *)
C18_NormalizeNumberOnText ==
    (NormalizedNumber /\ last.value.type = "str") =>
        LET text == last.value.text
            out == last.out
        IN  /\ out.exc = "none"
            /\ ~HasDigit(text) => out.ret = NoneV
            /\ HasDigit(text) => out.ret.type = "int"
            /\ last.form.kind = "decorated" =>
                 /\ out.ret = IntV(PlainValue(last.form))
                 /\ out = NormalizeNumber(StrV(DecoratedNumber(
                              last.form.neg, last.form.lead, last.form.tail, <<>>, <<>>)))
                 /\ NormalizeNumber(out.ret) = out

(* C19: numbers pass through the normalizers: normalize_number returns an  *)
(* int as it is, a float of integral value as that value, another float    *)
(* as the nearest integer; normalize_percentage returns a number with its  *)
(* value unchanged.                                                        *)
C19_NumericInputsPassThrough ==
    LET v == last.value
        out == last.out
    IN  /\ (NormalizedNumber /\ v.type = "int") => out = Returns(v)
        /\ (NormalizedNumber /\ v.type = "float" /\ v.k = 0) => out = Returns(IntV(v.m))
        /\ (NormalizedNumber /\ v.type = "float" /\ v.k > 0) =>
              /\ out.exc = "none"
              /\ out.ret.type = "int"
              /\ 2 * Abs(out.ret.v * Pow10(v.k) - v.m) <= Pow10(v.k)
        /\ (NormalizedPercentage /\ v.type = "int") => out = Returns(FloatV(v.v, 0))
        /\ (NormalizedPercentage /\ v.type = "float") => out = Returns(v)

(* the value a decorated percentage stands for *)
PercentValue(f) ==
    LET magnitude == f.whole * Pow10(f.width) + f.frac
    IN  FloatV(IF f.neg THEN -magnitude ELSE magnitude, f.width)

(* C20: on text normalize_percentage returns the first signed decimal      *)
(* number of the text, with a comma or a dot before the decimals, and None *)
(* when the text holds no number or the input is None; "12,5 %" is 12.5.   *)
C20_NormalizePercentageOnText ==
    (NormalizedPercentage /\ last.value.type \in {"str", "none"}) =>
        LET out == last.out
        IN  /\ out.exc = "none"
            /\ last.value.type = "none" => out.ret = NoneV
            /\ last.value.type = "str" =>
                 /\ out.ret = NoneV <=> ~HasDigit(last.value.text)
                 /\ HasDigit(last.value.text) => out.ret.type = "float"
                 /\ last.form.kind = "decorated" => out.ret = PercentValue(last.form)
                 /\ last.value.text = <<"1", "2", ",", "5", " ", "%">> => out.ret = FloatV(125, 1)

C20_Witness ==
    /\ NormalizedPercentage
    /\ last.value = StrV(<<"1", "2", ",", "5", " ", "%">>)
    /\ last.out = Returns(FloatV(125, 1))

NormalizerCalled == NormalizedNumber \/ NormalizedPercentage

(* C21: normalize_number and normalize_percentage are total: for every     *)
(* input (any text, also with a "-" after or between digits, an int, a     *)
(* float, a bool, None) the call returns a number or None and never        *)
(* raises.                                                                 *)
C21_NormalizersAreTotal ==
    NormalizerCalled =>
        /\ last.out.exc = "none"
        /\ last.out.ret.type \in {"none", "int", "float"}

----------------------------------------------------------------------------
(* Reading the record of the last method call on the ElectionScraper *)

MethodReturned(method) == last.op = method /\ ~Raised(last)

FetchedAll == MethodReturned("fetch_all")

IsDescendingBy(s, field) == \A i, j \in DOMAIN s : i < j => s[i][field].v >= s[j][field].v

IsAscendingBy(s, field) == \A i, j \in DOMAIN s : i < j => s[i][field].v <= s[j][field].v

(* the rows and regions the upstream publishes *)
PublishedRows == Get(upstream[PRIMARY_RESOURCE].body, "vysledky", <<>>)

PublishedRegions == Get(upstream[REGION_RESOURCE].body, "kraje", <<>>)

(* C22: in every dataset fetch_all produces the seats are ordered by       *)
(* mandates descending, the regions by region_id ascending and the parties *)
(* by votes descending, in whatever order the upstream publishes its rows; *)
(* the lists the three methods return alone are ordered the same way.      *)
C22_ListsAreSorted ==
    /\ FetchedAll =>
          /\ IsDescendingBy(last.ret.seats, "mandates")
          /\ IsAscendingBy(last.ret.regions, "region_id")
          /\ IsDescendingBy(last.ret.parties, "votes")
    /\ MethodReturned("fetch_party_results") => IsDescendingBy(last.ret, "votes")
    /\ MethodReturned("fetch_seat_allocation") => IsDescendingBy(last.ret, "mandates")
    /\ MethodReturned("fetch_region_leaders") => IsAscendingBy(last.ret, "region_id")

C22_Witness ==
    /\ FetchedAll
    /\ PublishedRows = <<STAN, SPOLU, ANO>>
    /\ Len(PublishedRegions) = 2
    /\ PublishedRegions[1].key = <<"2">>
    /\ PublishedRegions[2].key = <<"1">>
    /\ Len(last.ret.parties) = 3
    /\ last.ret.parties[1].name = "ANO"
    /\ last.ret.seats = <<SeatAllocation("ANO", IntV(4), Null),
                          SeatAllocation("SPOLU", IntV(3), Null)>>
    /\ last.ret.regions[1].region_id = IntV(1)
    /\ last.ret.regions[2].region_id = IntV(2)

(* the numbers of the parties, and the ids of the regions, of a list *)
HasUniqueField(s, field) == \A i, j \in DOMAIN s : i # j => s[i][field] # s[j][field]

IsStrictlyAscendingBy(s, field) ==
    \A i, j \in DOMAIN s : i < j => s[i][field].v < s[j][field].v

(* C23: in every dataset fetch_all produces no two PartyResult records     *)
(* share a number and no two RegionLeader records share a region_id: the   *)
(* regions are strictly ascending by region_id, every region_id in 1..14,  *)
(* whatever rows and keys the upstream publishes.                          *)
C23_IdentifiersAreUnique ==
    FetchedAll =>
        /\ HasUniqueField(last.ret.parties, "number")
        /\ HasUniqueField(last.ret.regions, "region_id")
        /\ IsStrictlyAscendingBy(last.ret.regions, "region_id")
        /\ \A i \in DOMAIN last.ret.regions : last.ret.regions[i].region_id.v \in 1..14

(* the summaries the scraper returned last: that of fetch_summary, that of *)
(* the dataset of fetch_all                                                *)
ReturnedSummaries ==
    IF MethodReturned("fetch_summary") THEN {last.ret}
    ELSE IF FetchedAll THEN {last.ret.summary}
    ELSE {}

(* percent is the hundredth nearest to 100 * part / total *)
IsNearestHundredth(percent, part, total) ==
    /\ percent.type = "float"
    /\ 2 * Abs(10000 * part * Pow10(percent.k) - percent.m * 100 * total)
          <= Abs(100 * total) * Pow10(percent.k)
    /\ percent.k <= 2

(* C24: in every summary invalid_votes is envelopes_returned - valid_votes *)
(* when both are present, and invalid_votes_percent is then                *)
(* 100 * invalid_votes / envelopes_returned rounded to hundredths when     *)
(* envelopes_returned is not 0 and null when it is 0; both are null when   *)
(* an operand is missing.                                                  *)
C24_InvalidVotesComputed ==
    \A summary \in ReturnedSummaries :
        LET envelopes_returned == summary.envelopes_returned
            valid_votes == summary.valid_votes
        IN  IF envelopes_returned # NoneV /\ valid_votes # NoneV
            THEN /\ summary.invalid_votes = IntV(envelopes_returned.v - valid_votes.v)
                 /\ IF envelopes_returned.v # 0
                    THEN IsNearestHundredth(summary.invalid_votes_percent,
                                            summary.invalid_votes.v, envelopes_returned.v)
                    ELSE summary.invalid_votes_percent = NoneV
            ELSE /\ summary.invalid_votes = NoneV
                 /\ summary.invalid_votes_percent = NoneV

C24_Witness ==
    /\ MethodReturned("fetch_summary")
    /\ last.ret.envelopes_returned = IntV(3)
    /\ last.ret.valid_votes = IntV(1)
    /\ last.ret.invalid_votes = IntV(2)
    /\ last.ret.invalid_votes_percent = FloatV(6667, 2)

(* C24 as stated: the percentage is computed whenever both operands are    *)
(* present, also when envelopes_returned is 0.                             *)
C24_PercentComputedWheneverPresent ==
    \A summary \in ReturnedSummaries :
        IF summary.envelopes_returned # NoneV /\ summary.valid_votes # NoneV
        THEN /\ summary.invalid_votes =
                    IntV(summary.envelopes_returned.v - summary.valid_votes.v)
             /\ summary.invalid_votes_percent # NoneV
        ELSE /\ summary.invalid_votes = NoneV
             /\ summary.invalid_votes_percent = NoneV

(* run i fetched the dataset in full without a conditional request, and    *)
(* the fetch succeeded                                                     *)
PlainFullFetch(i) ==
    /\ last.runs[i].exc = NoExc
    /\ last.runs[i].reqs # <<>>
    /\ \A k \in DOMAIN last.runs[i].reqs : last.runs[i].reqs[k].if_none_match = Null

(* the ETag header of the answer for the primary resource in run i *)
PrimaryAnswerEtag(i) ==
    LET primary == {k \in DOMAIN last.runs[i].reqs :
                       DataRequest(last.runs[i].reqs[k], last.runs[i].year,
                                   PRIMARY_RESOURCE)}
    IN  IF primary = {} THEN Null
        ELSE last.runs[i].reqs[CHOOSE k \in primary : \A j \in primary : k >= j].etag

(* C25: after a full fetch without a conditional request in which the      *)
(* answer for the primary resource carried an ETag header, the cache entry *)
(* is stored with that ETag, so that the next stale request for the key    *)
(* can revalidate conditionally.                                           *)
C25_FullFetchStoresPrimaryEtag ==
    \A i \in RunIds :
        (PlainFullFetch(i) /\ PrimaryAnswerEtag(i) # Null) =>
            /\ StoredNow(i).found
            /\ StoredNow(i).entry.etag = PrimaryAnswerEtag(i)

(* run i revalidated with a conditional GET that answered 200 *)
RevalidatedChanged(i) ==
    /\ last.runs[i].reqs # <<>>
    /\ last.runs[i].reqs[1].if_none_match # Null
    /\ last.runs[i].reqs[1].status = 200

(* C26: on the 200 revalidation path the body the conditional GET received *)
(* is reused: the fetch_all that follows issues no request for the primary *)
(* resource, only the other resources are fetched.                         *)
C26_PrefetchedBodyReused ==
    \A i \in RunIds :
        RevalidatedChanged(i) =>
            \A k \in DOMAIN last.runs[i].reqs :
                k > 1 => ~DataRequest(last.runs[i].reqs[k], last.runs[i].year,
                                      PRIMARY_RESOURCE)

(* the public methods entered during the last call, in order *)
StepsOfLastCall == SubSeq(instance.steps, Len(last.before.steps) + 1, Len(instance.steps))

ExtractionOrder ==
    <<"fetch_summary", "fetch_party_results", "fetch_seat_allocation",
      "fetch_region_leaders">>

(* the names the published rows give a party number: the rows              *)
(* fetch_party_results keeps                                               *)
NamesPublishedFor(number) ==
    {PublishedRows[k][2] :
        k \in {r \in DOMAIN PublishedRows :
                  /\ Len(PublishedRows[r]) >= 4
                  /\ number.type = "int"
                  /\ NormalizeNumber(PublishedRows[r][1]) = Returns(number)}}

(* the leaders the scraper returned last *)
ReturnedLeaders ==
    IF MethodReturned("fetch_region_leaders") THEN last.ret
    ELSE IF FetchedAll THEN last.ret.regions
    ELSE <<>>

(* C27: within one fetch_all the extractions are entered in the order      *)
(* summary, parties, seats, regions; and in whatever order the public      *)
(* methods of one ElectionScraper are called, fetch_region_leaders         *)
(* resolves the names of the leading parties after a party-results         *)
(* extraction: one was entered before it, or it runs one itself first, so  *)
(* a leader whose party number the results publish carries a published     *)
(* name of that number.                                                    *)
C27_ExtractionOrder ==
    /\ last.op = "fetch_all" =>
          /\ \A k \in DOMAIN StepsOfLastCall :
                k <= 4 => StepsOfLastCall[k] = ExtractionOrder[k]
          /\ ~Raised(last) => Len(StepsOfLastCall) >= 4
    /\ \A k \in DOMAIN instance.steps :
          instance.steps[k] = "fetch_region_leaders" =>
              \/ \E j \in 1..(k - 1) : instance.steps[j] = "fetch_party_results"
              \/ /\ k < Len(instance.steps)
                 /\ instance.steps[k + 1] = "fetch_party_results"
    /\ \A i \in DOMAIN ReturnedLeaders : \A g \in DOMAIN PublishedRegions :
          LET raw == PublishedRegions[g].raw
              number == NormalizeNumber(Get(raw, "kstrana", NoneV)).ret
          IN  (/\ ReturnedLeaders[i].region_name = raw.krajNazev
               /\ NamesPublishedFor(number) # {}) =>
                  ReturnedLeaders[i].leading_party \in NamesPublishedFor(number)

(* fetch_region_leaders called first on a new scraper ran the party        *)
(* extraction itself and named the leader from it                          *)
C27_Witness ==
    /\ MethodReturned("fetch_region_leaders")
    /\ last.before.steps = <<>>
    /\ instance.steps = <<"fetch_region_leaders", "fetch_party_results">>
    /\ PublishedRows = <<SPOLU, ANO, STAN>>
    /\ \E i \in DOMAIN last.ret :
          /\ last.ret[i].region_name = "Praha"
          /\ last.ret[i].leading_party = "ANO"

(* the requests of run i that went to a resource: the conditional GETs     *)
(* carry If-None-Match, the data requests do not                           *)
ConditionalGets(i) ==
    {k \in DOMAIN last.runs[i].reqs : last.runs[i].reqs[k].if_none_match # Null}

DataGets(i, resource) ==
    {k \in DOMAIN last.runs[i].reqs :
        DataRequest(last.runs[i].reqs[k], last.runs[i].year, resource)}

(* the request timed out or was answered with an error status *)
FailedRequest(q) == q.status = TransportError \/ q.status \notin {200, 304}

(* C29: every gather_election_data call ends, with a dataset or an         *)
(* exception, after a bounded number of requests and without retry: at     *)
(* most two policy runs, in each at most one conditional GET and at most   *)
(* one request to each data resource (the primary resource once per        *)
(* fetch_all, though summary, parties and seats read it), and a request    *)
(* that timed out or failed is the last of its run.                        *)
C29_BoundedRequestsNoRetry ==
    Called =>
        /\ Len(last.runs) \in 1..2
        /\ last.exc = NoExc \/ last.dataset = EmptyDict
        /\ \A i \in RunIds :
              /\ Cardinality(ConditionalGets(i)) <= 1
              /\ Cardinality(DataGets(i, PRIMARY_RESOURCE)) <= 1
              /\ Cardinality(DataGets(i, REGION_RESOURCE)) <= 1
              /\ DOMAIN last.runs[i].reqs =
                    ConditionalGets(i) \cup DataGets(i, PRIMARY_RESOURCE)
                                       \cup DataGets(i, REGION_RESOURCE)
              /\ \A k \in DOMAIN last.runs[i].reqs :
                    FailedRequest(last.runs[i].reqs[k]) =>
                        /\ k = Len(last.runs[i].reqs)
                        /\ last.runs[i].exc # NoExc

(* the primary year's request timed out, the fallback year was fetched     *)
(* with its three extractions reading one answer                           *)
C29_Witness ==
    /\ Returned
    /\ Len(last.runs) = 2
    /\ Len(last.runs[1].reqs) = 1
    /\ last.runs[1].reqs[1].status = TransportError
    /\ Len(last.runs[2].reqs) = 2
    /\ last.dataset.parties # <<>>
    /\ last.dataset.seats # <<>>

----------------------------------------------------------------------------
(* Reading the record of the last _extract_js_literal call *)

ExtractedJsLiteral == last.op = "extract_js_literal"

(* The literal as JavaScript reads it: a string opened by a quote ends at  *)
(* the next unescaped quote of the same kind; quote is the kind of the     *)
(* open string, "" outside strings.                                        *)
QuotedStart == [depth |-> 0, quote |-> "", escape |-> FALSE, end |-> 0]

QuotedChar(st, char, index, opening) ==
    IF char = "\\" /\ ~st.escape THEN [st EXCEPT !.escape = TRUE]
    ELSE IF st.quote # ""
    THEN [st EXCEPT !.escape = FALSE,
                    !.quote = IF char = st.quote /\ ~st.escape THEN "" ELSE @]
    ELSE IF char \in {"'", "\""} /\ ~st.escape
    THEN [st EXCEPT !.quote = char, !.escape = FALSE]
    ELSE IF char = opening THEN [st EXCEPT !.escape = FALSE, !.depth = @ + 1]
    ELSE IF char = ClosingOf(opening)
    THEN IF st.depth - 1 = 0 THEN [st EXCEPT !.depth = 0, !.end = index]
         ELSE [st EXCEPT !.escape = FALSE, !.depth = @ - 1]
    ELSE [st EXCEPT !.escape = FALSE]

RECURSIVE QuotedTo(_, _, _, _)
QuotedTo(script, start, n, opening) ==
    IF n < start THEN QuotedStart
    ELSE Bind(QuotedTo(script, start, n - 1, opening), LAMBDA st :
            IF st.end # 0 THEN st ELSE QuotedChar(st, script[n], n, opening))

QuoteAwareLiteral(script, marker, opening) ==
    Bind(FindFrom(script, marker, 1), LAMBDA found :
        IF found = 0 THEN Raises("ValueError")
        ELSE Bind(FindFrom(script, <<opening>>, found + Len(marker)), LAMBDA start :
                IF start = 0 THEN Raises("ValueError")
                ELSE Bind(QuotedTo(script, start, Len(script), opening), LAMBDA st :
                             IF st.end # 0 THEN Returns(StrV(SubSeq(script, start, st.end)))
                             ELSE Raises("ValueError"))))

(* C30: _extract_js_literal returns the text from the first opening        *)
(* bracket or brace after the marker to its matching closer; brackets and  *)
(* braces inside quoted strings are not counted, a quote of the other kind *)
(* inside a string does not end the string, nor does a quote after a       *)
(* backslash; it raises ValueError when the marker or the opening is       *)
(* absent or the literal is unbalanced.                                    *)
C30_LiteralHonoursQuotes ==
    ExtractedJsLiteral =>
        last.out = QuoteAwareLiteral(last.script, last.marker, last.opening)

----------------------------------------------------------------------------
(* Reading the record of the last _load_cache call beside a writer *)

LoadedCache == last.op = "load_cache"

(* the writer was part-way through the file when the reader ran *)
ReadWhileWriting == LoadedCache /\ last.file.kind = "partial"

(* C28: a reader that runs _load_cache while _store_cache is part-way      *)
(* through writing the file of the key never gets an entry built from      *)
(* partly written content: at every point of the write it gets None or a   *)
(* complete entry, and never an error.                                     *)
C28_ReaderNeverSeesPartialWrite ==
    ReadWhileWriting =>
        /\ last.out.exc = NoExc
        /\ last.out.found =>
              /\ last.file.written = Len(FileBytes(last.file.payload))
              /\ last.out = LoadCache([q \in Paths |-> ObjectFile(last.file.payload)],
                                      PRIMARY_YEAR, "EN")

====
